---------------------------- MODULE Spec2Model ----------------------------
(***************************************************************************)
(* The YouTube summarizer plugin: the transcript-extraction pipeline       *)
(* (src/src/services/youtube.ts, InnerTube version, lines 202-376), the    *)
(* plugin's summarizeVideo, editor commands and URL modal, and its         *)
(* settings with the StorageService (src/unnamed, src/src/main.ts).        *)
(*                                                                         *)
(* JavaScript strings that the code inspects character by character (the   *)
(* URL, language codes, text to entity-decode) are tuples of one-character *)
(* strings, so that regular-expression matching, startsWith and replace    *)
(* are computed rather than assumed.                                       *)
(***************************************************************************)
EXTENDS Integers, Sequences, FiniteSets, TLC

VARIABLES
    pc,             \* position of fetchTranscript in its chain of steps
    url,            \* argument url
    langCode,       \* argument langCode
    videoId,        \* const videoId
    pending,        \* the HTTP request fetchTranscript is awaiting, or "none"
    requests,       \* every HTTP request issued so far, in order
    videoPageBody,  \* const videoPageBody
    apiKey,         \* const apiKey
    innertubeData,  \* const innertubeData
    captionsJson,   \* const captionsJson
    captionTrack,   \* const captionTrack
    findCalled,     \* whether _findCaptionTrack has been evaluated
    transcriptXml,  \* const transcriptXml
    result,         \* the value the returned promise resolves to
    error,          \* the message of the Error the returned promise rejects with
    text,           \* argument of a direct decodeHTML call
    decoded,        \* value returned by that call
    candidate,      \* argument of a direct isYouTubeUrl call
    isYouTube,      \* value returned by that call
    version,        \* which summarizeVideo the plugin has: AI providers or Gemini
    isProcessing,   \* YouTubeSummarizerPlugin.isProcessing
    inv,            \* the summarizeVideo invocations: position, notices, calls made
    editor,         \* the invocations that wrote to the editor, in order
    thumbVideoId,   \* argument videoId of a getThumbnailUrl call
    quality,        \* argument quality of that call, or "omitted"
    thumbnailUrl,   \* value returned by that call
    stored,         \* the plugin data on disk
    loaded,         \* const loaded of StorageService.loadData
    storageSettings,\* StorageService.settings
    pluginSettings, \* YouTubeSummarizerPlugin.settings
    promptService,  \* the customPrompt the plugin's PromptService was built from
    initPc,         \* position of initializeServices
    upd,            \* the plugin.updateSettings invocations
    microtasks,     \* updateSettings continuations queued to run, in order
    settingsNotices,\* notices shown by the StorageService
    cmd             \* the runs of the editor commands and their URL modals

vars == <<pc, url, langCode, videoId, pending, requests, videoPageBody, apiKey,
          innertubeData, captionsJson, captionTrack, findCalled, transcriptXml,
          result, error, text, decoded, candidate, isYouTube, version,
          isProcessing, inv, editor, thumbVideoId, quality, thumbnailUrl, stored,
          loaded, storageSettings, pluginSettings, promptService, initPc, upd,
          microtasks, settingsNotices, cmd>>

pipelineVars == <<pc, url, langCode, videoId, pending, requests, videoPageBody,
                  apiKey, innertubeData, captionsJson, captionTrack, findCalled,
                  transcriptXml, result, error>>

decodeVars == <<text, decoded>>

urlTestVars == <<candidate, isYouTube>>

pluginVars == <<version, isProcessing, inv, editor>>

thumbVars == <<thumbVideoId, quality, thumbnailUrl>>

settingsVars == <<stored, loaded, storageSettings, pluginSettings, promptService,
                  initPc, upd, microtasks, settingsNotices>>

commandVars == <<cmd>>

\* what neither fetchTranscript nor summarizeVideo touches
serviceVars == <<thumbVars, settingsVars, commandVars>>

(***************************************************************************)
(* Bounds of the model.                                                    *)
(***************************************************************************)
MaxTracks == 2      \* longest caption-track list of a metadata response
MaxCues   == 2      \* most cue nodes of a caption document
MaxTokens == 2      \* most tokens concatenated into a text to decode
MaxInvocations == 2 \* most summarizeVideo invocations the user starts
MaxUpdates == 2     \* most plugin.updateSettings calls the settings tab makes
MaxCommands == 2    \* most runs of the editor commands

(***************************************************************************)
(* Strings.                                                                *)
(***************************************************************************)
\* JavaScript null / undefined where a string is expected: a one-element
\* tuple holding a token that no character equals.
Null == <<"null">>

Min(S) == CHOOSE x \in S : \A y \in S : x <= y

RECURSIVE Concat(_)
Concat(ss) == IF ss = <<>> THEN <<>> ELSE Head(ss) \o Concat(Tail(ss))

\* String.prototype.startsWith
startsWith(s, p) == Len(p) <= Len(s) /\ SubSeq(s, 1, Len(p)) = p

\* String.prototype.includes
includes(s, p) == \E i \in 1..(Len(s) + 1) : startsWith(SubSeq(s, i, Len(s)), p)

\* String.prototype.replace with a global, literal pattern: the matches are
\* found left to right in the original text, without overlap, and the
\* replacement text is not rescanned.
RECURSIVE ReplaceAll(_, _, _)
ReplaceAll(s, pat, rep) ==
    IF s = <<>> THEN <<>>
    ELSE IF startsWith(s, pat)
         THEN rep \o ReplaceAll(SubSeq(s, Len(pat) + 1, Len(s)), pat, rep)
         ELSE <<Head(s)>> \o ReplaceAll(Tail(s), pat, rep)

(***************************************************************************)
(* VIDEO_ID_REGEX = /(?:v=|\/)([a-zA-Z0-9_-]{11})/ and extractMatch.       *)
(***************************************************************************)
VideoIdLen == 11

\* the character class [a-zA-Z0-9_-]
IdChars == {"a", "b", "c", "d", "e", "f", "g", "h", "i", "j", "k", "l", "m", "n", "o", "p", "q", "r", "s", "t", "u", "v", "w", "x", "y", "z", "A", "B", "C", "D", "E", "F", "G", "H", "I", "J", "K", "L", "M", "N", "O", "P", "Q", "R", "S", "T", "U", "V", "W", "X", "Y", "Z", "0", "1", "2", "3", "4", "5", "6", "7", "8", "9", "_", "-"}

\* ([a-zA-Z0-9_-]{11}) matched at position i of s
IdRunAt(s, i) ==
    /\ i + VideoIdLen - 1 <= Len(s)
    /\ \A k \in i..(i + VideoIdLen - 1) : s[k] \in IdChars

\* The capture group of the regex matched at position i, or Null. The
\* alternatives v= and / start with different characters, so at most one
\* of them matches at a position.
VideoIdRegexAt(s, i) ==
    IF startsWith(SubSeq(s, i, Len(s)), <<"v", "=">>) /\ IdRunAt(s, i + 2)
    THEN SubSeq(s, i + 2, i + 1 + VideoIdLen)
    ELSE IF s[i] = "/" /\ IdRunAt(s, i + 1)
         THEN SubSeq(s, i + 1, i + VideoIdLen)
         ELSE Null

\* text.match(VIDEO_ID_REGEX): the leftmost match; match[1] or Null
VIDEO_ID_REGEX(s) ==
    LET hits == {i \in 1..Len(s) : VideoIdRegexAt(s, i) # Null}
    IN  IF hits = {} THEN Null ELSE VideoIdRegexAt(s, Min(hits))

\* extractMatch returning match[0], the whole match with its v= or / in front
extractMatch_WholeMatch(s) ==
    LET hits == {i \in 1..Len(s) : VideoIdRegexAt(s, i) # Null}
    IN  IF hits = {} THEN Null ELSE SubSeq(s, Min(hits), Min(hits) + VideoIdLen)

\* extractMatch(text, VIDEO_ID_REGEX): match ? match[1] : null
extractMatch(s) == VIDEO_ID_REGEX(s)

(***************************************************************************)
(* decodeHTML: six chained global replaces, in the order of the code.      *)
(***************************************************************************)
\* decodeHTML with the semicolon of &amp; made optional: /&amp;?/g
decodeHTML_LooseAmp(s) ==
    LET r1 == ReplaceAll(s,  <<"&", "#", "3", "9", ";">>,  <<"'">>)
        r2 == ReplaceAll(ReplaceAll(r1, <<"&", "a", "m", "p", ";">>, <<"&">>), <<"&", "a", "m", "p">>, <<"&">>)
        r3 == ReplaceAll(r2, <<"&", "q", "u", "o", "t", ";">>, <<"\"">>)
        r4 == ReplaceAll(r3, <<"&", "a", "p", "o", "s", ";">>, <<"'">>)
        r5 == ReplaceAll(r4, <<"&", "l", "t", ";">>,   <<"<">>)
        r6 == ReplaceAll(r5, <<"&", "g", "t", ";">>,   <<">">>)
    IN  r6

decodeHTML(s) ==
    LET r1 == ReplaceAll(s,  <<"&", "#", "3", "9", ";">>,  <<"'">>)
        r2 == ReplaceAll(r1, <<"&", "a", "m", "p", ";">>,  <<"&">>)
        r3 == ReplaceAll(r2, <<"&", "q", "u", "o", "t", ";">>, <<"\"">>)
        r4 == ReplaceAll(r3, <<"&", "a", "p", "o", "s", ";">>, <<"'">>)
        r5 == ReplaceAll(r4, <<"&", "l", "t", ";">>,   <<"<">>)
        r6 == ReplaceAll(r5, <<"&", "g", "t", ";">>,   <<">">>)
    IN  r6

(***************************************************************************)
(* Error messages thrown by the pipeline, named after the failure kinds.   *)
(***************************************************************************)
InvalidUrl                 == "Invalid YouTube URL"
CredentialExtractionFailed == "Failed to extract InnerTube API key for video"
AgeRestricted              == "Age-restricted video"
VideoUnavailable           == "Video unavailable"
TranscriptsDisabled        == "Transcripts disabled for video"
NoMatchingTrack            == "No suitable transcript found for language"
\* errors that are not thrown by the service itself but pass through it
RequestRejected            == "request rejected"          \* obsidian request()
JsonSyntaxError            == "SyntaxError"                \* JSON.parse
DetailsTypeError           == "TypeError"                  \* destructuring undefined

\* the outcome of a call that may throw
Return(v) == [threw |-> "none", value |-> v]
Throw(e)  == [threw |-> e, value |-> Null]

(***************************************************************************)
(* The data the surrounding world supplies.                                *)
(***************************************************************************)
en   == <<"e", "n">>
enUS == <<"e", "n", "-", "U", "S">>
enGB == <<"e", "n", "-", "G", "B">>
de   == <<"d", "e">>
fr   == <<"f", "r">>

LangCodes == {en, fr}

\* caption tracks of a metadata response; a manually authored track has
\* a kind other than 'asr'
TrackUniverse ==
    { [languageCode |-> en,   kind |-> "asr",    baseUrl |-> "https://yt/timedtext?en.asr"],
      [languageCode |-> en,   kind |-> "manual", baseUrl |-> "https://yt/timedtext?en"],
      [languageCode |-> enUS, kind |-> "manual", baseUrl |-> "https://yt/timedtext?en-US"],
      [languageCode |-> enGB, kind |-> "asr",    baseUrl |-> "https://yt/timedtext?en-GB.asr"],
      [languageCode |-> de,   kind |-> "manual", baseUrl |-> "https://yt/timedtext?de"] }

NoTrack == [languageCode |-> Null, kind |-> "none", baseUrl |-> "none"]

TrackLists == UNION { [1..n -> TrackUniverse] : n \in 0..MaxTracks }

\* innertubeData.captions: whether captions.playerCaptionsTracklistRenderer
\* is there, whether it has a captionTracks property, and the list
NoCaptions == [renderer |-> FALSE, hasTracks |-> FALSE, captionTracks |-> <<>>]

CaptionsSet ==
    { NoCaptions,
      [renderer |-> TRUE, hasTracks |-> FALSE, captionTracks |-> <<>>] }
    \cup { [renderer |-> TRUE, hasTracks |-> TRUE, captionTracks |-> ts] :
             ts \in TrackLists }

\* innertubeData.videoDetails
NoDetails == [present |-> FALSE, title |-> Null, author |-> Null, channelId |-> Null]

VideoDetailsSet ==
    { NoDetails,
      [present |-> TRUE, title |-> <<"T", "o", "m", " ", "&", "a", "m", "p", ";", " ", "J", "e", "r", "r", "y">>, author |-> <<"A", "&", "l", "t", ";", "B">>,
       channelId |-> <<"U", "C", "1">>],
      [present |-> TRUE, title |-> Null, author |-> <<>>, channelId |-> Null] }

\* innertubeData.playabilityStatus.status
PlayabilityStatuses == {"absent", "OK", "LOGIN_REQUIRED", "ERROR"}

\* innertubeData before the metadata endpoint has answered
NoData == [status |-> "unfetched", captions |-> NoCaptions, videoDetails |-> NoDetails]

\* the JSON documents the metadata endpoint may answer with
MetadataResponses ==
    [status : PlayabilityStatuses, captions : CaptionsSet, videoDetails : VideoDetailsSet]

\* the watch page, reduced to what INNERTUBE_API_KEY_REGEX captures in it
\* ("" when the pattern is not in the markup)
HtmlPages == { [innertubeApiKey |-> "AIzaSyKey"], [innertubeApiKey |-> ""] }

\* videoPageBody before the watch page has been fetched
NoPage == [innertubeApiKey |-> "unfetched"]

\* what parseFloat gives for an attribute that is missing or not a number;
\* no attribute of a caption document is negative
NaN == -1

\* a cue node <text start=".." dur="..">..</text>; the start and dur
\* attributes are decimal seconds, held as a whole number of tenths, NaN
\* standing for an attribute that is not there
CueUniverse ==
    { [text |-> <<"a", " ", "&", "a", "m", "p", ";", "l", "t", ";", " ", "b">>, start |-> 5,   dur |-> 23],
      [text |-> <<"i", "t", "&", "#", "3", "9", ";", "s">>,     start |-> 0,   dur |-> 10],
      [text |-> <<"x">>,            start |-> NaN, dur |-> 10] }

\* caption documents, as the sequence of their cue nodes in document order
CaptionDocs == UNION { [1..n -> CueUniverse] : n \in 0..MaxCues }

(***************************************************************************)
(* The private helpers of YouTubeService.                                  *)
(***************************************************************************)
\* html.match(INNERTUBE_API_KEY_REGEX): match[1], "" when there is no match
INNERTUBE_API_KEY_REGEX(html) == html.innertubeApiKey

\* _extractInnertubeApiKey that returns the capture group whatever it holds
extractInnertubeApiKey_NoThrow(html) == Return(INNERTUBE_API_KEY_REGEX(html))

extractInnertubeApiKey(html) ==
    LET match == INNERTUBE_API_KEY_REGEX(html)
    IN  IF match # "" THEN Return(match) ELSE Throw(CredentialExtractionFailed)

\* _extractCaptionsJson that looks at the caption container first
extractCaptionsJson_CaptionsFirst(data) ==
    IF ~data.captions.renderer \/ ~data.captions.hasTracks
    THEN Throw(TranscriptsDisabled)
    ELSE IF data.status = "LOGIN_REQUIRED" THEN Throw(AgeRestricted)
    ELSE IF data.status = "ERROR" THEN Throw(VideoUnavailable)
    ELSE Return(data.captions)

\* _extractCaptionsJson without the LOGIN_REQUIRED test
extractCaptionsJson_NoLoginTest(data) ==
    IF data.status = "ERROR" THEN Throw(VideoUnavailable)
    ELSE IF ~data.captions.renderer \/ ~data.captions.hasTracks
         THEN Throw(TranscriptsDisabled)
         ELSE Return(data.captions)

extractCaptionsJson(data) ==
    IF data.status = "LOGIN_REQUIRED" THEN Throw(AgeRestricted)
    ELSE IF data.status = "ERROR" THEN Throw(VideoUnavailable)
    ELSE IF ~data.captions.renderer \/ ~data.captions.hasTracks
         THEN Throw(TranscriptsDisabled)
         ELSE Return(data.captions)

\* Array.prototype.find: the first element of arr that satisfies the
\* predicate, hits being the indices of those that do; undefined if none
find(arr, hits) == IF hits = {} THEN NoTrack ELSE arr[Min(hits)]

\* _findCaptionTrack without its last rule, the fallback to the first track
findCaptionTrack_NoFallback(cj, lang) ==
    LET captionTracks == IF cj.hasTracks THEN cj.captionTracks ELSE <<>>
        t1 == find(captionTracks,
                   {i \in 1..Len(captionTracks) :
                        /\ captionTracks[i].languageCode = lang
                        /\ captionTracks[i].kind # "asr"})
        t2 == IF t1 = NoTrack
              THEN find(captionTracks,
                   {i \in 1..Len(captionTracks) : captionTracks[i].languageCode = lang})
              ELSE t1
        t3 == IF t2 = NoTrack
              THEN find(captionTracks,
                   {i \in 1..Len(captionTracks) : startsWith(captionTracks[i].languageCode, lang)})
              ELSE t2
    IN  IF t3 = NoTrack THEN Throw(NoMatchingTrack) ELSE Return(t3)

\* _findCaptionTrack without its first rule: auto-generated tracks are not
\* passed over
findCaptionTrack_NoKindRule(cj, lang) ==
    LET captionTracks == IF cj.hasTracks THEN cj.captionTracks ELSE <<>>
        t2 == find(captionTracks,
                   {i \in 1..Len(captionTracks) : captionTracks[i].languageCode = lang})
        t3 == IF t2 = NoTrack
              THEN find(captionTracks,
                   {i \in 1..Len(captionTracks) : startsWith(captionTracks[i].languageCode, lang)})
              ELSE t2
        t4 == IF t3 = NoTrack /\ Len(captionTracks) > 0 THEN captionTracks[1] ELSE t3
    IN  IF t4 = NoTrack THEN Throw(NoMatchingTrack) ELSE Return(t4)

findCaptionTrack(cj, lang) ==
    LET captionTracks == IF cj.hasTracks THEN cj.captionTracks ELSE <<>>
        t1 == find(captionTracks,
                   {i \in 1..Len(captionTracks) :
                        /\ captionTracks[i].languageCode = lang
                        /\ captionTracks[i].kind # "asr"})
        t2 == IF t1 = NoTrack
              THEN find(captionTracks,
                   {i \in 1..Len(captionTracks) : captionTracks[i].languageCode = lang})
              ELSE t1
        t3 == IF t2 = NoTrack
              THEN find(captionTracks,
                   {i \in 1..Len(captionTracks) : startsWith(captionTracks[i].languageCode, lang)})
              ELSE t2
        t4 == IF t3 = NoTrack /\ Len(captionTracks) > 0 THEN captionTracks[1] ELSE t3
    IN  IF t4 = NoTrack THEN Throw(NoMatchingTrack) ELSE Return(t4)

\* parseFloat(attribute) * 1000, the attribute being a number of tenths;
\* NaN * 1000 is NaN
parseFloat1000(tenths) == IF tenths = NaN THEN NaN ELSE tenths * 100

\* _parseTranscript that yields the lines in reverse document order
parseTranscript_Reversed(xml) ==
    [i \in 1..Len(xml) |->
        [text     |-> decodeHTML(xml[Len(xml) + 1 - i].text),
         duration |-> parseFloat1000(xml[Len(xml) + 1 - i].dur),
         offset   |-> parseFloat1000(xml[Len(xml) + 1 - i].start)]]

parseTranscript(xml) ==
    [i \in 1..Len(xml) |->
        [text     |-> decodeHTML(xml[i].text),
         duration |-> parseFloat1000(xml[i].dur),
         offset   |-> parseFloat1000(xml[i].start)]]

\* x || 'Unknown' for a string x
OrUnknown(x) == IF x = Null \/ x = <<>> THEN <<"U", "n", "k", "n", "o", "w", "n">> ELSE x

\* TranscriptResponse that builds the channel path without testing channelId
TranscriptResponse_NoChannelTest(u, id, details, ls) ==
    [url        |-> u,
     videoId    |-> id,
     title      |-> decodeHTML(OrUnknown(details.title)),
     author     |-> decodeHTML(OrUnknown(details.author)),
     channelUrl |-> <<"h", "t", "t", "p", "s", ":", "/", "/", "w", "w", "w", ".", "y", "o", "u", "t", "u", "b", "e", ".", "c", "o", "m", "/", "c", "h", "a", "n", "n", "e", "l", "/">> \o details.channelId,
     lines      |-> ls]

\* the object fetchTranscript returns
TranscriptResponse(u, id, details, ls) ==
    [url        |-> u,
     videoId    |-> id,
     title      |-> decodeHTML(OrUnknown(details.title)),
     author     |-> decodeHTML(OrUnknown(details.author)),
     channelUrl |-> IF details.channelId = Null \/ details.channelId = <<>>
                    THEN <<>>
                    ELSE <<"h", "t", "t", "p", "s", ":", "/", "/", "w", "w", "w", ".", "y", "o", "u", "t", "u", "b", "e", ".", "c", "o", "m", "/", "c", "h", "a", "n", "n", "e", "l", "/">> \o details.channelId,
     lines      |-> ls]

NoResult == [url |-> Null, videoId |-> Null, title |-> Null, author |-> Null,
             channelUrl |-> Null, lines |-> <<>>]


(***************************************************************************)
(* YouTubeService.getThumbnailUrl (src/src/services/youtube.ts lines       *)
(* 228-240).                                                               *)
(***************************************************************************)
\* keyof ThumbnailQuality
Qualities == {"default", "medium", "high", "standard", "maxres"}

\* getThumbnailUrl with 'high' as the default of the parameter quality
getThumbnailUrl_DefaultHigh(id, q) ==
    LET qualities ==
            [default  |-> Concat(<< <<"h", "t", "t", "p", "s", ":", "/", "/", "i", "m", "g", ".", "y", "o", "u", "t", "u", "b", "e", ".", "c", "o", "m", "/", "v", "i", "/">>, id, <<"/", "d", "e", "f", "a", "u", "l", "t", ".", "j", "p", "g">> >>),
             medium   |-> Concat(<< <<"h", "t", "t", "p", "s", ":", "/", "/", "i", "m", "g", ".", "y", "o", "u", "t", "u", "b", "e", ".", "c", "o", "m", "/", "v", "i", "/">>, id, <<"/", "m", "q", "d", "e", "f", "a", "u", "l", "t", ".", "j", "p", "g">> >>),
             high     |-> Concat(<< <<"h", "t", "t", "p", "s", ":", "/", "/", "i", "m", "g", ".", "y", "o", "u", "t", "u", "b", "e", ".", "c", "o", "m", "/", "v", "i", "/">>, id, <<"/", "h", "q", "d", "e", "f", "a", "u", "l", "t", ".", "j", "p", "g">> >>),
             standard |-> Concat(<< <<"h", "t", "t", "p", "s", ":", "/", "/", "i", "m", "g", ".", "y", "o", "u", "t", "u", "b", "e", ".", "c", "o", "m", "/", "v", "i", "/">>, id, <<"/", "s", "d", "d", "e", "f", "a", "u", "l", "t", ".", "j", "p", "g">> >>),
             maxres   |-> Concat(<< <<"h", "t", "t", "p", "s", ":", "/", "/", "i", "m", "g", ".", "y", "o", "u", "t", "u", "b", "e", ".", "c", "o", "m", "/", "v", "i", "/">>, id, <<"/", "m", "a", "x", "r", "e", "s", "d", "e", "f", "a", "u", "l", "t", ".", "j", "p", "g">> >>)]
    IN  qualities[IF q = "omitted" THEN "high" ELSE q]

\* the record qualities is built from videoId; qualities[quality] is
\* returned, quality being 'maxres' when the argument is omitted
getThumbnailUrl(id, q) ==
    LET qualities ==
            [default  |-> Concat(<< <<"h", "t", "t", "p", "s", ":", "/", "/", "i", "m", "g", ".", "y", "o", "u", "t", "u", "b", "e", ".", "c", "o", "m", "/", "v", "i", "/">>, id, <<"/", "d", "e", "f", "a", "u", "l", "t", ".", "j", "p", "g">> >>),
             medium   |-> Concat(<< <<"h", "t", "t", "p", "s", ":", "/", "/", "i", "m", "g", ".", "y", "o", "u", "t", "u", "b", "e", ".", "c", "o", "m", "/", "v", "i", "/">>, id, <<"/", "m", "q", "d", "e", "f", "a", "u", "l", "t", ".", "j", "p", "g">> >>),
             high     |-> Concat(<< <<"h", "t", "t", "p", "s", ":", "/", "/", "i", "m", "g", ".", "y", "o", "u", "t", "u", "b", "e", ".", "c", "o", "m", "/", "v", "i", "/">>, id, <<"/", "h", "q", "d", "e", "f", "a", "u", "l", "t", ".", "j", "p", "g">> >>),
             standard |-> Concat(<< <<"h", "t", "t", "p", "s", ":", "/", "/", "i", "m", "g", ".", "y", "o", "u", "t", "u", "b", "e", ".", "c", "o", "m", "/", "v", "i", "/">>, id, <<"/", "s", "d", "d", "e", "f", "a", "u", "l", "t", ".", "j", "p", "g">> >>),
             maxres   |-> Concat(<< <<"h", "t", "t", "p", "s", ":", "/", "/", "i", "m", "g", ".", "y", "o", "u", "t", "u", "b", "e", ".", "c", "o", "m", "/", "v", "i", "/">>, id, <<"/", "m", "a", "x", "r", "e", "s", "d", "e", "f", "a", "u", "l", "t", ".", "j", "p", "g">> >>)]
    IN  qualities[IF q = "omitted" THEN "maxres" ELSE q]

\* identifiers handed to getThumbnailUrl: any string is accepted
ThumbnailIds ==
    { <<"d", "Q", "w", "4", "w", "9", "W", "g", "X", "c", "Q">>, <<"a", "-", "b", "_", "c", "1", "D", "2", "e", "3", "F">>, <<"0", "0", "0", "0", "0", "0", "0", "0", "0", "0", "0">> } \cup
    { <<>>, <<"a", "b", "c", "1", "2", "3", "4", "5", "6", "7", "8">>, <<"s", "h", "o", "r", "t">>, <<"a", "/", "b">>, <<"d", "Q", "w", "4", "w", "9", "W", "g", "X", "c", "Q", "&", "t", "=", "1">>, <<".", ".">>,
      <<"m", "a", "x", "r", "e", "s", "d", "e", "f", "a", "u", "l", "t">>, <<"x">> }

(***************************************************************************)
(* Plugin settings: DEFAULT_SETTINGS (src/src/constants.ts lines 19-26)    *)
(* and the StorageService (src/unnamed/part_002).  A settings object is a  *)
(* function from its keys to their values.                                 *)
(***************************************************************************)
DEFAULT_PROMPT == "Please analyze video transcript and provide: ..."

DEFAULT_SETTINGS ==
    [geminiApiKey  |-> "",
     selectedModel |-> "gemini-1.5-pro",
     customPrompt  |-> DEFAULT_PROMPT,
     maxTokens     |-> 3000,
     temperature   |-> 1]

\* an object without keys
EmptyObject == [k \in {} |-> ""]

\* { ...a, ...b }
Spread(a, b) ==
    [k \in DOMAIN a \cup DOMAIN b |-> IF k \in DOMAIN b THEN b[k] ELSE a[k]]

\* what plugin.loadData() resolves to: null, or an object that may have a
\* settings property
Loaded(st, has, s) == [state |-> st, hasSettings |-> has, settings |-> s]

NotLoaded  == Loaded("unloaded", FALSE, EmptyObject)
LoadThrew  == Loaded("threw", FALSE, EmptyObject)
NothingStored == Loaded("null", FALSE, EmptyObject)

\* the settings objects found on disk: none, empty, some keys, a key that
\* DEFAULT_SETTINGS does not have, every key
StoredSettings ==
    { EmptyObject,
      [customPrompt |-> "P0"],
      [geminiApiKey |-> "key", maxTokens |-> 100],
      [selectedProvider |-> "openai"],
      [geminiApiKey |-> "key", selectedModel |-> "gemini-1.5-flash",
       customPrompt |-> "P0", maxTokens |-> 100, temperature |-> 0] }

StoredData ==
    { NothingStored, Loaded("object", FALSE, EmptyObject) }
    \cup { Loaded("object", TRUE, s) : s \in StoredSettings }

\* the partial settings the handlers of the settings tab pass to
\* plugin.updateSettings
PartialUpdates ==
    { [customPrompt |-> "P1"],
      [customPrompt |-> "P2"],
      [geminiApiKey |-> "key2"],
      [selectedProvider |-> "ollama"],
      DEFAULT_SETTINGS }

Updates == 1..MaxUpdates

\* a plugin.updateSettings call that has not been made
NotUpdated ==
    [pc |-> "idle", settings |-> EmptyObject, saving |-> EmptyObject,
     copy |-> EmptyObject]

NoticeLoadFailed == "Failed to load settings"
NoticeSaveFailed == "Failed to save settings"

\* loadData that spreads the defaults over the stored settings
loadedSettings_DefaultsWin(l) ==
    IF l.state = "object" /\ l.hasSettings
    THEN Spread(l.settings, DEFAULT_SETTINGS)
    ELSE Spread(DEFAULT_SETTINGS, EmptyObject)

\* if (loaded && loaded.settings) { ...DEFAULT_SETTINGS, ...loaded.settings }
\* else { ...DEFAULT_SETTINGS }; the catch block gives the same
loadedSettings(l) ==
    IF l.state = "object" /\ l.hasSettings
    THEN Spread(DEFAULT_SETTINGS, l.settings)
    ELSE Spread(DEFAULT_SETTINGS, EmptyObject)

(***************************************************************************)
(* The editor commands (src/unnamed/part_001 lines 175-226) and the URL    *)
(* modal (src/src/modals/youtube-url.ts).                                  *)
(***************************************************************************)
Max(S) == CHOOSE x \in S : \A y \in S : y <= x

\* String.prototype.trim
trim(s) ==
    LET keep == {i \in 1..Len(s) : s[i] \notin {" ", "\t", "\n"}}
    IN  IF keep = {} THEN <<>> ELSE SubSeq(s, Min(keep), Max(keep))

\* what editor.getSelection() returns when a command runs
Selections ==
    { <<>>, <<" ", " ">>,
      <<" ", "h", "t", "t", "p", "s", ":", "/", "/", "y", "o", "u", "t", "u", ".", "b", "e", "/", "d", "Q", "w", "4", "w", "9", "W", "g", "X", "c", "Q", " ">>,
      <<"s", "o", "m", "e", " ", "t", "e", "x", "t">> }

\* what the input field of the modal holds when Submit is clicked
ModalInputs ==
    { <<>>, <<" ">>, <<" ", "h", "t", "t", "p", "s", ":", "/", "/", "y", "o", "u", "t", "u", ".", "b", "e", "/", "d", "Q", "w", "4", "w", "9", "W", "g", "X", "c", "Q">>, <<"n", "o", "t", " ", "a", " ", "u", "r", "l", " ">> }

Commands == 1..MaxCommands

NoticeNotYouTube == "Selected text is not a valid YouTube URL"
NoticeEnterUrl   == "Please enter a valid URL"

\* a command run that has not happened
NotRun ==
    [pc |-> "idle", selectedText |-> Null, url |-> Null,
     invocation |-> 0, submits |-> 0, notices |-> {}]
(***************************************************************************)
(* URLs handed to fetchTranscript.                                         *)
(***************************************************************************)
\* https://www.youtube.com/watch?<before>v=<id><after>
WatchUrl(before, id, after) ==
    Concat(<< <<"h", "t", "t", "p", "s", ":", "/", "/", "w", "w", "w", ".", "y", "o", "u", "t", "u", "b", "e", ".", "c", "o", "m", "/", "w", "a", "t", "c", "h", "?">>, before, <<"v", "=">>, id, after >>)

\* https://youtu.be/<id><after>
ShortUrl(id, after) == Concat(<< <<"h", "t", "t", "p", "s", ":", "/", "/", "y", "o", "u", "t", "u", ".", "b", "e", "/">>, id, after >>)

VideoIds == { <<"d", "Q", "w", "4", "w", "9", "W", "g", "X", "c", "Q">>, <<"a", "-", "b", "_", "c", "1", "D", "2", "e", "3", "F">>, <<"0", "0", "0", "0", "0", "0", "0", "0", "0", "0", "0">> }

\* other query parameters in front of v=
BeforeParams ==
    { <<>>, <<"f", "e", "a", "t", "u", "r", "e", "=", "s", "h", "a", "r", "e", "d", "&">>, <<"r", "v", "=", "A", "A", "A", "A", "A", "A", "A", "A", "A", "A", "A", "&">>, <<"n", "e", "x", "t", "=", "/", "w", "a", "t", "c", "h", "_", "l", "a", "t", "e", "r", "&">> }

\* other query parameters behind the identifier
AfterParams == { <<>>, <<"&", "t", "=", "4", "2", "s">>, <<"&", "l", "i", "s", "t", "=", "P", "L", "r", "A", "X", "t", "m", "E", "r", "Z", "g", "O", "e", "i", "K", "m", "4", "s", "g", "N", "O", "k", "n", "G", "v", "N", "j", "b", "y", "9", "e", "f", "d", "f">> }

ShortAfterParams == { <<>>, <<"?", "t", "=", "4", "2">> }

RecognizedUrls ==
    { WatchUrl(b, i, a) : b \in BeforeParams, i \in VideoIds, a \in AfterParams }
    \cup { ShortUrl(i, a) : i \in VideoIds, a \in ShortAfterParams }

OtherUrls ==
    { <<>>,
      <<"n", "o", "t", " ", "a", " ", "u", "r", "l">>,
      <<"h", "t", "t", "p", "s", ":", "/", "/", "e", "x", "a", "m", "p", "l", "e", ".", "c", "o", "m", "/">>,
      <<"h", "t", "t", "p", "s", ":", "/", "/", "y", "o", "u", "t", "u", ".", "b", "e", "/">>,
      <<"h", "t", "t", "p", "s", ":", "/", "/", "w", "w", "w", ".", "y", "o", "u", "t", "u", "b", "e", ".", "c", "o", "m", "/">>,
      <<"h", "t", "t", "p", "s", ":", "/", "/", "w", "w", "w", ".", "y", "o", "u", "t", "u", "b", "e", ".", "c", "o", "m", "/", "w", "a", "t", "c", "h", "?", "v", "=">>,
      <<"h", "t", "t", "p", "s", ":", "/", "/", "w", "w", "w", ".", "y", "o", "u", "t", "u", "b", "e", ".", "c", "o", "m", "/", "w", "a", "t", "c", "h", "?", "v", "=", "s", "h", "o", "r", "t">>,
      <<"h", "t", "t", "p", "s", ":", "/", "/", "w", "w", "w", ".", "y", "o", "u", "t", "u", "b", "e", ".", "c", "o", "m", "/", "w", "a", "t", "c", "h", "?", "v", "=", "d", "Q", "w", "4", "w", "9", "W", "g", "X", "!", "Q">>,
      <<"h", "t", "t", "p", "s", ":", "/", "/", "w", "w", "w", ".", "y", "o", "u", "t", "u", "b", "e", ".", "c", "o", "m", "/", "p", "l", "a", "y", "l", "i", "s", "t", "?", "l", "i", "s", "t", "=", "P", "L", "r", "A", "X", "t", "m", "E", "r", "Z", "g", "O", "e", "i", "K", "m", "4", "s", "g", "N", "O", "k", "n", "G", "v", "N", "j", "b", "y", "9", "e", "f", "d", "f">> }

Urls == RecognizedUrls \cup OtherUrls

\* the URLs the whole pipeline is run on
PipelineUrls ==
    { WatchUrl(<<>>, <<"d", "Q", "w", "4", "w", "9", "W", "g", "X", "c", "Q">>, <<>>),
      WatchUrl(<<"r", "v", "=", "A", "A", "A", "A", "A", "A", "A", "A", "A", "A", "A", "&">>, <<"d", "Q", "w", "4", "w", "9", "W", "g", "X", "c", "Q">>, <<"&", "t", "=", "4", "2", "s">>),
      ShortUrl(<<"a", "-", "b", "_", "c", "1", "D", "2", "e", "3", "F">>, <<"?", "t", "=", "4", "2">>) }
    \cup OtherUrls

(***************************************************************************)
(* Texts handed to decodeHTML directly.                                    *)
(***************************************************************************)
Tokens ==
    { <<"&", "a", "m", "p", ";">>, <<"&", "l", "t", ";">>, <<"&", "g", "t", ";">>, <<"&", "q", "u", "o", "t", ";">>, <<"&", "#", "3", "9", ";">>, <<"&", "a", "p", "o", "s", ";">>,
      <<"&">>, <<";">>, <<"a">>, <<"a", "m", "p", ";">>, <<"l", "t", ";">>, <<"g", "t", ";">>, <<"q", "u", "o", "t", ";">>, <<"#", "3", "9", ";">>, <<"a", "p", "o", "s", ";">>,
      <<"&", "a", "m", "p">>, <<"<">>, <<"\"">> }

Texts == { Concat(ts) : ts \in UNION { [1..n -> Tokens] : n \in 0..MaxTokens } }

(***************************************************************************)
(* fetchTranscript, one action per step between its states.                *)
(***************************************************************************)
\* the two summarizeVideo of the repository: the one that waits for the AI
\* providers plugin and the one that calls the Gemini service
Versions == {"providers", "gemini"}

Invocations == 1..MaxInvocations

\* a summarizeVideo invocation that has not been made
NotInvoked ==
    [pc |-> "idle", source |-> "none", notices |-> <<>>, fetched |-> FALSE,
     aiCalled |-> FALSE, summaryText |-> "empty"]

Request(m, e, id, key, u) ==
    [method |-> m, endpoint |-> e, videoId |-> id, key |-> key, url |-> u]

PipelineInit(urls) ==
    /\ pc = "Start"
    /\ url \in urls
    /\ langCode \in LangCodes
    /\ videoId = Null
    /\ pending = "none"
    /\ requests = <<>>
    /\ videoPageBody = NoPage
    /\ apiKey = ""
    /\ innertubeData = NoData
    /\ captionsJson = NoCaptions
    /\ captionTrack = NoTrack
    /\ findCalled = FALSE
    /\ transcriptXml = <<>>
    /\ result = NoResult
    /\ error = "none"

\* fetchTranscript has not been called
PipelineIdle ==
    /\ PipelineInit({<<>>})
    /\ langCode = en

\* no direct decodeHTML call
DecodeIdle ==
    /\ text = <<>>
    /\ decoded = Null

\* no isYouTubeUrl call
UrlTestIdle ==
    /\ candidate = <<>>
    /\ isYouTube = "unset"

\* the plugin as constructed: private isProcessing = false, nothing invoked
PluginInit ==
    /\ version \in Versions
    /\ isProcessing = FALSE
    /\ inv = [i \in Invocations |-> NotInvoked]
    /\ editor = <<>>

PluginIdle ==
    /\ version = "providers"
    /\ isProcessing = FALSE
    /\ inv = [i \in Invocations |-> NotInvoked]
    /\ editor = <<>>

\* no direct getThumbnailUrl call
ThumbnailIdle ==
    /\ thumbVideoId = <<>>
    /\ quality = "omitted"
    /\ thumbnailUrl = Null

\* the settings before onload has run
SettingsConstructed ==
    /\ loaded = NotLoaded
    /\ storageSettings = EmptyObject
    /\ pluginSettings = EmptyObject
    /\ promptService = "unset"
    /\ initPc = "constructed"
    /\ upd = [u \in Updates |-> NotUpdated]
    /\ microtasks = <<>>
    /\ settingsNotices = <<>>

SettingsIdle ==
    /\ stored = NothingStored
    /\ SettingsConstructed

\* no command has run
CommandIdle == cmd = [c \in Commands |-> NotRun]

ServicesIdle ==
    /\ ThumbnailIdle
    /\ SettingsIdle
    /\ CommandIdle

Init ==
    /\ PipelineInit(PipelineUrls)
    /\ DecodeIdle
    /\ UrlTestIdle
    /\ PluginIdle
    /\ ServicesIdle

\* an Error leaves fetchTranscript: the returned promise rejects
Reject(e) ==
    /\ pc' = "Failed"
    /\ error' = e
    /\ pending' = "none"

\* ParseUrl without the test of videoId
ParseUrl_NoTest ==
    /\ pc = "Start"
    /\ pc' = "UrlParsed"
    /\ videoId' = extractMatch(url)
    /\ UNCHANGED <<error, pending>>
    /\ UNCHANGED <<url, langCode, requests, videoPageBody, apiKey, innertubeData,
                   captionsJson, captionTrack, findCalled, transcriptXml, result>>
    /\ UNCHANGED <<decodeVars, urlTestVars, pluginVars, serviceVars>>

\* const videoId = this.extractMatch(url, VIDEO_ID_REGEX);
\* if (!videoId) throw new Error('Invalid YouTube URL');
ParseUrl ==
    /\ pc = "Start"
    /\ LET id == extractMatch(url)
       IN  IF id = Null \/ id = <<>>
           THEN Reject(InvalidUrl) /\ UNCHANGED videoId
           ELSE /\ pc' = "UrlParsed"
                /\ videoId' = id
                /\ UNCHANGED <<error, pending>>
    /\ UNCHANGED <<url, langCode, requests, videoPageBody, apiKey, innertubeData,
                   captionsJson, captionTrack, findCalled, transcriptXml, result>>
    /\ UNCHANGED <<decodeVars, urlTestVars, pluginVars, serviceVars>>

\* _fetchVideoHtml: request(`${WATCH_URL}${videoId}`) is issued
FetchVideoHtml ==
    /\ pc = "UrlParsed"
    /\ pending = "none"
    /\ pending' = "watch"
    /\ requests' = Append(requests, Request("GET", "WATCH_URL", videoId, "", ""))
    /\ UNCHANGED <<pc, url, langCode, videoId, videoPageBody, apiKey, innertubeData,
                   captionsJson, captionTrack, findCalled, transcriptXml, result,
                   error>>
    /\ UNCHANGED <<decodeVars, urlTestVars, pluginVars, serviceVars>>

\* the awaited request settles
VideoHtmlResponse ==
    /\ pc = "UrlParsed"
    /\ pending = "watch"
    /\ \/ \E page \in HtmlPages :
             /\ videoPageBody' = page
             /\ pc' = "PageFetched"
             /\ pending' = "none"
             /\ UNCHANGED error
       \/ Reject(RequestRejected) /\ UNCHANGED videoPageBody
    /\ UNCHANGED <<url, langCode, videoId, requests, apiKey, innertubeData,
                   captionsJson, captionTrack, findCalled, transcriptXml, result>>
    /\ UNCHANGED <<decodeVars, urlTestVars, pluginVars, serviceVars>>

\* ExtractInnertubeApiKey that fetches the watch page again when the key is
\* not in the markup, instead of throwing
ExtractInnertubeApiKey_Retry ==
    /\ pc = "PageFetched"
    /\ LET r == extractInnertubeApiKey(videoPageBody)
       IN  IF r.threw # "none"
           THEN pc' = "UrlParsed" /\ UNCHANGED <<apiKey, error, pending>>
           ELSE /\ apiKey' = r.value
                /\ pc' = "CredentialExtracted"
                /\ UNCHANGED <<error, pending>>
    /\ UNCHANGED <<url, langCode, videoId, requests, videoPageBody, innertubeData,
                   captionsJson, captionTrack, findCalled, transcriptXml, result>>
    /\ UNCHANGED <<decodeVars, urlTestVars, pluginVars, serviceVars>>

\* const apiKey = this._extractInnertubeApiKey(videoPageBody, videoId);
ExtractInnertubeApiKey ==
    /\ pc = "PageFetched"
    /\ LET r == extractInnertubeApiKey(videoPageBody)
       IN  IF r.threw # "none"
           THEN Reject(r.threw) /\ UNCHANGED apiKey
           ELSE /\ apiKey' = r.value
                /\ pc' = "CredentialExtracted"
                /\ UNCHANGED <<error, pending>>
    /\ UNCHANGED <<url, langCode, videoId, requests, videoPageBody, innertubeData,
                   captionsJson, captionTrack, findCalled, transcriptXml, result>>
    /\ UNCHANGED <<decodeVars, urlTestVars, pluginVars, serviceVars>>

\* _fetchInnertubeData: the POST to `${INNERTUBE_API_URL}${apiKey}` is issued
FetchInnertubeData ==
    /\ pc = "CredentialExtracted"
    /\ pending = "none"
    /\ pending' = "player"
    /\ requests' = Append(requests,
                          Request("POST", "INNERTUBE_API_URL", videoId, apiKey, ""))
    /\ UNCHANGED <<pc, url, langCode, videoId, videoPageBody, apiKey, innertubeData,
                   captionsJson, captionTrack, findCalled, transcriptXml, result,
                   error>>
    /\ UNCHANGED <<decodeVars, urlTestVars, pluginVars, serviceVars>>

\* the awaited POST settles; return JSON.parse(response)
InnertubeDataResponse ==
    /\ pc = "CredentialExtracted"
    /\ pending = "player"
    /\ \/ \E data \in MetadataResponses :
             /\ innertubeData' = data
             /\ pc' = "MetadataFetched"
             /\ pending' = "none"
             /\ UNCHANGED error
       \/ Reject(JsonSyntaxError) /\ UNCHANGED innertubeData
       \/ Reject(RequestRejected) /\ UNCHANGED innertubeData
    /\ UNCHANGED <<url, langCode, videoId, requests, videoPageBody, apiKey,
                   captionsJson, captionTrack, findCalled, transcriptXml, result>>
    /\ UNCHANGED <<decodeVars, urlTestVars, pluginVars, serviceVars>>

\* SelectCaptionTrack that destructures innertubeData.videoDetails first
SelectCaptionTrack_ReadsDetails ==
    /\ pc = "MetadataFetched"
    /\ LET r1 == extractCaptionsJson(innertubeData)
       IN  IF ~innertubeData.videoDetails.present
           THEN /\ Reject(DetailsTypeError)
                /\ UNCHANGED <<captionsJson, captionTrack, findCalled>>
           ELSE IF r1.threw # "none"
           THEN /\ Reject(r1.threw)
                /\ UNCHANGED <<captionsJson, captionTrack, findCalled>>
           ELSE LET r2 == findCaptionTrack(r1.value, langCode)
                IN  /\ captionsJson' = r1.value
                    /\ findCalled' = TRUE
                    /\ IF r2.threw # "none"
                       THEN Reject(r2.threw) /\ UNCHANGED captionTrack
                       ELSE /\ captionTrack' = r2.value
                            /\ pc' = "TrackSelected"
                            /\ UNCHANGED <<error, pending>>
    /\ UNCHANGED <<url, langCode, videoId, requests, videoPageBody, apiKey,
                   innertubeData, transcriptXml, result>>
    /\ UNCHANGED <<decodeVars, urlTestVars, pluginVars, serviceVars>>

\* const captionsJson = this._extractCaptionsJson(innertubeData, videoId);
\* const captionTrack = this._findCaptionTrack(captionsJson, langCode);
SelectCaptionTrack ==
    /\ pc = "MetadataFetched"
    /\ LET r1 == extractCaptionsJson(innertubeData)
       IN  IF r1.threw # "none"
           THEN /\ Reject(r1.threw)
                /\ UNCHANGED <<captionsJson, captionTrack, findCalled>>
           ELSE LET r2 == findCaptionTrack(r1.value, langCode)
                IN  /\ captionsJson' = r1.value
                    /\ findCalled' = TRUE
                    /\ IF r2.threw # "none"
                       THEN Reject(r2.threw) /\ UNCHANGED captionTrack
                       ELSE /\ captionTrack' = r2.value
                            /\ pc' = "TrackSelected"
                            /\ UNCHANGED <<error, pending>>
    /\ UNCHANGED <<url, langCode, videoId, requests, videoPageBody, apiKey,
                   innertubeData, transcriptXml, result>>
    /\ UNCHANGED <<decodeVars, urlTestVars, pluginVars, serviceVars>>

\* FetchTranscriptXml that requests the document of every listed track
FetchTranscriptXml_EveryTrack ==
    /\ pc = "TrackSelected"
    /\ pending = "none"
    /\ pending' = "timedtext"
    /\ requests' = requests \o
                      [i \in 1..Len(captionsJson.captionTracks) |->
                          Request("GET", "baseUrl", Null, "",
                                  captionsJson.captionTracks[i].baseUrl)]
    /\ UNCHANGED <<pc, url, langCode, videoId, videoPageBody, apiKey, innertubeData,
                   captionsJson, captionTrack, findCalled, transcriptXml, result,
                   error>>
    /\ UNCHANGED <<decodeVars, urlTestVars, pluginVars, serviceVars>>

\* request(captionTrack.baseUrl) is issued
FetchTranscriptXml ==
    /\ pc = "TrackSelected"
    /\ pending = "none"
    /\ pending' = "timedtext"
    /\ requests' = Append(requests,
                          Request("GET", "baseUrl", Null, "", captionTrack.baseUrl))
    /\ UNCHANGED <<pc, url, langCode, videoId, videoPageBody, apiKey, innertubeData,
                   captionsJson, captionTrack, findCalled, transcriptXml, result,
                   error>>
    /\ UNCHANGED <<decodeVars, urlTestVars, pluginVars, serviceVars>>

\* the awaited caption request settles
TranscriptXmlResponse ==
    /\ pc = "TrackSelected"
    /\ pending = "timedtext"
    /\ \/ \E xml \in CaptionDocs :
             /\ transcriptXml' = xml
             /\ pc' = "TranscriptFetched"
             /\ pending' = "none"
             /\ UNCHANGED error
       \/ Reject(RequestRejected) /\ UNCHANGED transcriptXml
    /\ UNCHANGED <<url, langCode, videoId, requests, videoPageBody, apiKey,
                   innertubeData, captionsJson, captionTrack, findCalled, result>>
    /\ UNCHANGED <<decodeVars, urlTestVars, pluginVars, serviceVars>>

\* const lines = this._parseTranscript(transcriptXml);
\* const { title, author, channelId } = innertubeData.videoDetails;
\* return { url, videoId, title, author, channelUrl, lines };
BuildResponse ==
    /\ pc = "TranscriptFetched"
    /\ LET lines == parseTranscript(transcriptXml)
       IN  IF ~innertubeData.videoDetails.present
           THEN Reject(DetailsTypeError) /\ UNCHANGED result
           ELSE /\ result' = TranscriptResponse(url, videoId,
                                                innertubeData.videoDetails, lines)
                /\ pc' = "Done"
                /\ UNCHANGED <<error, pending>>
    /\ UNCHANGED <<url, langCode, videoId, requests, videoPageBody, apiKey,
                   innertubeData, captionsJson, captionTrack, findCalled,
                   transcriptXml>>
    /\ UNCHANGED <<decodeVars, urlTestVars, pluginVars, serviceVars>>

Next ==
    \/ ParseUrl
    \/ FetchVideoHtml
    \/ VideoHtmlResponse
    \/ ExtractInnertubeApiKey
    \/ FetchInnertubeData
    \/ InnertubeDataResponse
    \/ SelectCaptionTrack
    \/ FetchTranscriptXml
    \/ TranscriptXmlResponse
    \/ BuildResponse

Spec == Init /\ [][Next]_vars

(***************************************************************************)
(* extractMatch(url, VIDEO_ID_REGEX) on its own, over every URL shape.     *)
(***************************************************************************)
InitUrl ==
    /\ PipelineInit(Urls)
    /\ DecodeIdle
    /\ UrlTestIdle
    /\ PluginIdle
    /\ ServicesIdle

NextUrl == ParseUrl

SpecUrl == InitUrl /\ [][NextUrl]_vars

(***************************************************************************)
(* decodeHTML on its own, over texts built from entity fragments.          *)
(***************************************************************************)
InitDecode ==
    /\ PipelineInit({<<>>})
    /\ text \in Texts
    /\ decoded = Null
    /\ UrlTestIdle
    /\ PluginIdle
    /\ ServicesIdle

DecodeHTML ==
    /\ decoded = Null
    /\ decoded' = decodeHTML(text)
    /\ UNCHANGED text
    /\ UNCHANGED <<pipelineVars, urlTestVars, pluginVars, serviceVars>>

NextDecode == DecodeHTML

SpecDecode == InitDecode /\ [][NextDecode]_vars

(***************************************************************************)
(* YouTubeSummarizerPlugin.summarizeVideo, one action per synchronous run  *)
(* of its code between two awaits.  The AI providers version is            *)
(* src/unnamed/part_001 lines 249-328, the Gemini version src/src/main.ts  *)
(* lines 145-192.                                                          *)
(***************************************************************************)
NoticeAlreadyProcessing == "Already processing a video, please wait..."
NoticeNoProviders       == "AI Providers plugin not found or no providers configured."
NoticeNoProvider        == "No AI provider selected or available."
NoticeNoApiKey          == "Gemini API key is missing. Please set it in the plugin settings."
NoticeFetching          == "Fetching video transcript..."
NoticeGenerating        == "Generating summary..."
NoticeStreamError       == "Error generating summary"
NoticeSuccess           == "Summary generated successfully!"
NoticeError             == "Error"

\* where summarizeVideo was called from
Sources == {"command", "modal"}

\* what aiResolver.promise resolves to: nothing, no provider, a list whose
\* first element is no provider, a list of providers
ProviderLists == {"null", "empty", "firstMissing", "some"}

\* the positions at which an invocation is between try and finally
InFlight ==
    {"waitForAI", "aiPromise", "fetching", "executing", "streaming", "summarizing"}

\* invocation i shows a notice and moves on
Step(i, position, notice) ==
    [inv[i] EXCEPT !.pc = position, !.notices = Append(@, notice)]

\* catch without the finally block
Catch_NoFinally(i) ==
    /\ inv' = [inv EXCEPT ![i] = Step(i, "failed", NoticeError)]
    /\ UNCHANGED <<version, isProcessing, editor>>

\* catch (error) { new Notice(`Error: ...`) } finally { isProcessing = false }
Catch(i) ==
    /\ inv' = [inv EXCEPT ![i] = Step(i, "failed", NoticeError)]
    /\ isProcessing' = FALSE
    /\ UNCHANGED <<version, editor>>

\* a notice, then return, isProcessing left as it is
EarlyReturn_NoFinally(i, notice) ==
    /\ inv' = [inv EXCEPT ![i] = Step(i, "returned", notice)]
    /\ UNCHANGED <<version, isProcessing, editor>>

\* a notice, then return from inside try: finally { isProcessing = false }
EarlyReturn(i, notice) ==
    /\ inv' = [inv EXCEPT ![i] = Step(i, "returned", notice)]
    /\ isProcessing' = FALSE
    /\ UNCHANGED <<version, editor>>

\* new Notice('Fetching video transcript...');
\* ... await this.youtubeService.fetchTranscript(url)
CallFetchTranscript(i) ==
    /\ inv' = [inv EXCEPT ![i] =
                   [Step(i, "fetching", NoticeFetching) EXCEPT !.fetched = TRUE]]
    /\ UNCHANGED <<version, editor>>

\* editor.replaceSelection(summary); new Notice('Summary generated
\* successfully!'); finally { isProcessing = false }
WriteSummary(i) ==
    /\ editor' = Append(editor, i)
    /\ inv' = [inv EXCEPT ![i] =
                   [Step(i, "done", NoticeSuccess) EXCEPT !.summaryText = "full"]]
    /\ isProcessing' = FALSE
    /\ UNCHANGED version

\* summarizeVideo without the isProcessing guard
SummarizeVideo_NoGuard(i, src) ==
    /\ inv[i].pc = "idle"
    /\ \A j \in Invocations : j < i => inv[j].pc # "idle"
    /\ isProcessing' = TRUE
    /\ inv' = [inv EXCEPT ![i] = [@ EXCEPT !.pc = "waitForAI", !.source = src]]
    /\ UNCHANGED <<version, editor>>
    /\ UNCHANGED <<pipelineVars, decodeVars, urlTestVars, serviceVars>>

\* summarizeVideo is called and runs to its first await; invocations are
\* numbered in the order they are made
summarizeVideo(i, src) ==
    /\ inv[i].pc = "idle"
    /\ \A j \in Invocations : j < i => inv[j].pc # "idle"
    /\ IF isProcessing
       THEN /\ inv' = [inv EXCEPT ![i] =
                          [@ EXCEPT !.pc = "rejected", !.source = src,
                                    !.notices = <<NoticeAlreadyProcessing>>]]
            /\ UNCHANGED <<version, isProcessing, editor>>
       ELSE IF version = "providers"
            THEN \* isProcessing = true; await waitForAI()
                 /\ isProcessing' = TRUE
                 /\ inv' = [inv EXCEPT ![i] =
                               [@ EXCEPT !.pc = "waitForAI", !.source = src]]
                 /\ UNCHANGED <<version, editor>>
            ELSE \* isProcessing = true; if (!this.settings.geminiApiKey) ...
                 \E geminiApiKey \in {"", "key"} :
                    IF geminiApiKey = ""
                    THEN /\ inv' = [inv EXCEPT ![i] =
                                       [@ EXCEPT !.pc = "returned", !.source = src,
                                                 !.notices = <<NoticeNoApiKey>>]]
                         /\ isProcessing' = FALSE
                         /\ UNCHANGED <<version, editor>>
                    ELSE /\ isProcessing' = TRUE
                         /\ inv' = [inv EXCEPT ![i] =
                                       [@ EXCEPT !.pc = "fetching", !.source = src,
                                                 !.notices = <<NoticeFetching>>,
                                                 !.fetched = TRUE]]
                         /\ UNCHANGED <<version, editor>>

\* summarizeVideo called on its own, by a caller the model leaves open
SummarizeVideo(i, src) ==
    /\ summarizeVideo(i, src)
    /\ UNCHANGED <<pipelineVars, decodeVars, urlTestVars, serviceVars>>

\* await waitForAI() settles
WaitForAISettled(i) ==
    /\ inv[i].pc = "waitForAI"
    /\ \/ /\ inv' = [inv EXCEPT ![i] = [@ EXCEPT !.pc = "aiPromise"]]
          /\ UNCHANGED <<version, isProcessing, editor>>
       \/ Catch(i)
    /\ UNCHANGED <<pipelineVars, decodeVars, urlTestVars, serviceVars>>

\* await aiResolver.promise settles; the provider checks; fetchTranscript
\* is called
AiProvidersSettled(i) ==
    /\ inv[i].pc = "aiPromise"
    /\ \/ \E aiProviders \in ProviderLists :
             IF aiProviders \in {"null", "empty"}
             THEN EarlyReturn(i, NoticeNoProviders)
             ELSE IF aiProviders = "firstMissing"
                  THEN EarlyReturn(i, NoticeNoProvider)
                  ELSE CallFetchTranscript(i) /\ UNCHANGED isProcessing
       \/ Catch(i)
    /\ UNCHANGED <<pipelineVars, decodeVars, urlTestVars, serviceVars>>

\* await fetchTranscript(url) settles; the prompt is built and the AI is
\* called
FetchTranscriptSettled(i) ==
    /\ inv[i].pc = "fetching"
    /\ \/ /\ inv' = [inv EXCEPT ![i] =
                        [Step(i, IF version = "providers" THEN "executing"
                                                          ELSE "summarizing",
                              NoticeGenerating) EXCEPT !.aiCalled = TRUE]]
          /\ UNCHANGED <<version, isProcessing, editor>>
       \/ Catch(i)
    /\ UNCHANGED <<pipelineVars, decodeVars, urlTestVars, serviceVars>>

\* await aiProviders.execute(...) settles; the chunk handlers are set
ExecuteSettled(i) ==
    /\ inv[i].pc = "executing"
    /\ \/ /\ inv' = [inv EXCEPT ![i] = [@ EXCEPT !.pc = "streaming"]]
          /\ UNCHANGED <<version, isProcessing, editor>>
       \/ Catch(i)
    /\ UNCHANGED <<pipelineVars, decodeVars, urlTestVars, serviceVars>>

\* chunkHandler.onData that writes the accumulated text to the editor
StreamData_WritesPartial(i) ==
    /\ inv[i].pc = "streaming"
    /\ inv[i].summaryText = "empty"
    /\ inv' = [inv EXCEPT ![i] = [@ EXCEPT !.summaryText = "partial"]]
    /\ editor' = Append(editor, i)
    /\ UNCHANGED <<version, isProcessing>>
    /\ UNCHANGED <<pipelineVars, decodeVars, urlTestVars, serviceVars>>

\* chunkHandler.onData: summaryText = accumulatedText
StreamData(i) ==
    /\ inv[i].pc = "streaming"
    /\ inv[i].summaryText = "empty"
    /\ inv' = [inv EXCEPT ![i] = [@ EXCEPT !.summaryText = "partial"]]
    /\ UNCHANGED <<version, isProcessing, editor>>
    /\ UNCHANGED <<pipelineVars, decodeVars, urlTestVars, serviceVars>>

\* chunkHandler.onEnd: summaryText = fullText; resolve(); the summary is
\* written
StreamEnd(i) ==
    /\ inv[i].pc = "streaming"
    /\ WriteSummary(i)
    /\ UNCHANGED <<pipelineVars, decodeVars, urlTestVars, serviceVars>>

\* chunkHandler.onError: a notice, reject(error), then catch and finally
StreamError(i) ==
    /\ inv[i].pc = "streaming"
    /\ inv' = [inv EXCEPT ![i] =
                   [@ EXCEPT !.pc = "failed",
                             !.notices = @ \o <<NoticeStreamError, NoticeError>>]]
    /\ isProcessing' = FALSE
    /\ UNCHANGED <<version, editor>>
    /\ UNCHANGED <<pipelineVars, decodeVars, urlTestVars, serviceVars>>

\* await this.geminiService.summarize(prompt) settles
SummarizeSettled(i) ==
    /\ inv[i].pc = "summarizing"
    /\ \/ WriteSummary(i)
       \/ Catch(i)
    /\ UNCHANGED <<pipelineVars, decodeVars, urlTestVars, serviceVars>>

InitPlugin ==
    /\ PipelineInit({<<>>})
    /\ DecodeIdle
    /\ UrlTestIdle
    /\ PluginInit
    /\ ServicesIdle

NextPlugin ==
    \E i \in Invocations :
        \/ \E src \in Sources : SummarizeVideo(i, src)
        \/ WaitForAISettled(i)
        \/ AiProvidersSettled(i)
        \/ FetchTranscriptSettled(i)
        \/ ExecuteSettled(i)
        \/ StreamData(i)
        \/ StreamEnd(i)
        \/ StreamError(i)
        \/ SummarizeSettled(i)

SpecPlugin == InitPlugin /\ [][NextPlugin]_vars

\* every awaited call settles, and the stream fires onEnd or onError
Settles(i) ==
    /\ WF_vars(WaitForAISettled(i))
    /\ WF_vars(AiProvidersSettled(i))
    /\ WF_vars(FetchTranscriptSettled(i))
    /\ WF_vars(ExecuteSettled(i))
    /\ WF_vars(StreamEnd(i) \/ StreamError(i))
    /\ WF_vars(SummarizeSettled(i))

SpecPluginLive == SpecPlugin /\ \A i \in Invocations : Settles(i)

(***************************************************************************)
(* YouTubeService.isYouTubeUrl (src/src/services/youtube.ts lines 247-252) *)
(* on its own, over URLs of several hosts.                                 *)
(***************************************************************************)
isYouTubeUrl(u) ==
    \/ startsWith(u, <<"h", "t", "t", "p", "s", ":", "/", "/", "w", "w", "w", ".", "y", "o", "u", "t", "u", "b", "e", ".", "c", "o", "m", "/">>)
    \/ startsWith(u, <<"h", "t", "t", "p", "s", ":", "/", "/", "y", "o", "u", "t", "u", ".", "b", "e", "/">>)

\* https://<host><path>
HostUrl(host, path) == Concat(<< <<"h", "t", "t", "p", "s", ":", "/", "/">>, host, path >>)

\* hosts on the domain youtube.com or youtu.be
YouTubeHosts ==
    { <<"w", "w", "w", ".", "y", "o", "u", "t", "u", "b", "e", ".", "c", "o", "m">>, <<"y", "o", "u", "t", "u", "b", "e", ".", "c", "o", "m">>, <<"m", ".", "y", "o", "u", "t", "u", "b", "e", ".", "c", "o", "m">>, <<"m", "u", "s", "i", "c", ".", "y", "o", "u", "t", "u", "b", "e", ".", "c", "o", "m">>,
      <<"y", "o", "u", "t", "u", ".", "b", "e">>, <<"w", "w", "w", ".", "y", "o", "u", "t", "u", ".", "b", "e">> }

\* hosts on neither domain
OtherHosts ==
    { <<"e", "x", "a", "m", "p", "l", "e", ".", "c", "o", "m">>, <<"v", "i", "m", "e", "o", ".", "c", "o", "m">>, <<"n", "o", "t", "y", "o", "u", "t", "u", ".", "b", "e">>, <<"w", "w", "w", ".", "y", "o", "u", "t", "u", "b", "e", ".", "c", "o", "m", ".", "e", "v", "i", "l", ".", "o", "r", "g">> }

Paths ==
    { <<>>, <<"/">>, <<"/", "w", "a", "t", "c", "h", "?", "v", "=", "d", "Q", "w", "4", "w", "9", "W", "g", "X", "c", "Q">>, <<"/", "d", "Q", "w", "4", "w", "9", "W", "g", "X", "c", "Q">>, <<"/", "e", "m", "b", "e", "d", "/", "d", "Q", "w", "4", "w", "9", "W", "g", "X", "c", "Q">>,
      <<"/", "?", "u", "=", "h", "t", "t", "p", "s", ":", "/", "/", "w", "w", "w", ".", "y", "o", "u", "t", "u", "b", "e", ".", "c", "o", "m", "/">> }

Candidates == { HostUrl(h, p) : h \in YouTubeHosts \cup OtherHosts, p \in Paths }

InitUrlTest ==
    /\ PipelineInit({<<>>})
    /\ DecodeIdle
    /\ PluginIdle
    /\ ServicesIdle
    /\ candidate \in Candidates
    /\ isYouTube = "unset"

IsYouTubeUrl ==
    /\ isYouTube = "unset"
    /\ isYouTube' = IF isYouTubeUrl(candidate) THEN "true" ELSE "false"
    /\ UNCHANGED candidate
    /\ UNCHANGED <<pipelineVars, decodeVars, pluginVars, serviceVars>>

NextUrlTest == IsYouTubeUrl

SpecUrlTest == InitUrlTest /\ [][NextUrlTest]_vars


(***************************************************************************)
(* getThumbnailUrl on its own, over identifiers and the five qualities.    *)
(***************************************************************************)
InitThumbnail ==
    /\ PipelineInit({<<>>})
    /\ DecodeIdle
    /\ UrlTestIdle
    /\ PluginIdle
    /\ SettingsIdle
    /\ CommandIdle
    /\ thumbVideoId \in ThumbnailIds
    /\ quality \in Qualities \cup {"omitted"}
    /\ thumbnailUrl = Null

GetThumbnailUrl ==
    /\ thumbnailUrl = Null
    /\ thumbnailUrl' = getThumbnailUrl(thumbVideoId, quality)
    /\ UNCHANGED <<thumbVideoId, quality>>
    /\ UNCHANGED <<pipelineVars, decodeVars, urlTestVars, pluginVars, settingsVars,
                   commandVars>>

NextThumbnail == GetThumbnailUrl

SpecThumbnail == InitThumbnail /\ [][NextThumbnail]_vars

(***************************************************************************)
(* The settings: initializeServices (src/unnamed/part_001 lines 155-168),  *)
(* plugin.updateSettings (lines 228-241) and the StorageService            *)
(* (src/unnamed/part_002).  A handler of the settings tab runs as a task   *)
(* of its own; the code behind an await runs as a microtask, and the       *)
(* queued microtasks run, in order, before the next task.                  *)
(***************************************************************************)
InitSettings ==
    /\ PipelineIdle
    /\ DecodeIdle
    /\ UrlTestIdle
    /\ PluginIdle
    /\ ThumbnailIdle
    /\ CommandIdle
    /\ stored \in StoredData
    /\ SettingsConstructed

\* return { ...this.settings }
getSettings == Spread(storageSettings, EmptyObject)

\* this.storageService = new StorageService(this): settings is a copy of
\* DEFAULT_SETTINGS; loadData() calls plugin.loadData() and awaits it
InitializeServices ==
    /\ initPc = "constructed"
    /\ storageSettings' = Spread(DEFAULT_SETTINGS, EmptyObject)
    /\ initPc' = "loading"
    /\ UNCHANGED <<stored, loaded, pluginSettings, promptService, upd, microtasks,
                   settingsNotices>>
    /\ UNCHANGED <<pipelineVars, decodeVars, urlTestVars, pluginVars, thumbVars,
                   commandVars>>

\* plugin.loadData() settles: the try block or the catch block of loadData
LoadDataSettled ==
    /\ initPc = "loading"
    /\ \/ /\ loaded' = stored
          /\ storageSettings' = loadedSettings(stored)
          /\ UNCHANGED settingsNotices
       \/ /\ loaded' = LoadThrew
          /\ storageSettings' = Spread(DEFAULT_SETTINGS, EmptyObject)
          /\ settingsNotices' = Append(settingsNotices, NoticeLoadFailed)
    /\ initPc' = "loaded"
    /\ UNCHANGED <<stored, pluginSettings, promptService, upd, microtasks>>
    /\ UNCHANGED <<pipelineVars, decodeVars, urlTestVars, pluginVars, thumbVars,
                   commandVars>>

\* this.settings = await this.storageService.getSettings();
\* this.promptService = new PromptService(this.settings.customPrompt);
\* the settings tab is added after this
SettingsLoaded ==
    /\ initPc = "loaded"
    /\ pluginSettings' = getSettings
    /\ promptService' = pluginSettings'.customPrompt
    /\ initPc' = "ready"
    /\ UNCHANGED <<stored, loaded, storageSettings, upd, microtasks, settingsNotices>>
    /\ UNCHANGED <<pipelineVars, decodeVars, urlTestVars, pluginVars, thumbVars,
                   commandVars>>

\* a handler of the settings tab calls plugin.updateSettings(settings):
\* storageService.updateSettings merges at once and saveData calls
\* plugin.saveData({ settings: this.settings }); the calls are numbered in
\* the order they are made.  Every handler passes an object, so the test
\* if (!settings) return never returns.
UpdateSettings(u, settings) ==
    /\ initPc = "ready"
    /\ microtasks = <<>>
    /\ upd[u].pc = "idle"
    /\ \A j \in Updates : j < u => upd[j].pc # "idle"
    /\ storageSettings' = Spread(storageSettings, settings)
    /\ upd' = [upd EXCEPT ![u] = [@ EXCEPT !.pc = "saving", !.settings = settings,
                                           !.saving = storageSettings']]
    /\ UNCHANGED <<stored, loaded, pluginSettings, promptService, initPc, microtasks,
                   settingsNotices>>
    /\ UNCHANGED <<pipelineVars, decodeVars, urlTestVars, pluginVars, thumbVars,
                   commandVars>>

\* SaveDataSettled in which getSettings returns the object this call saved
SaveDataSettled_StaleCopy(u) ==
    /\ upd[u].pc = "saving"
    /\ \/ /\ stored' = Loaded("object", TRUE, upd[u].saving)
          /\ UNCHANGED settingsNotices
       \/ /\ settingsNotices' = Append(settingsNotices, NoticeSaveFailed)
          /\ UNCHANGED stored
    /\ upd' = [upd EXCEPT ![u] = [@ EXCEPT !.pc = "queued", !.copy = upd[u].saving]]
    /\ microtasks' = Append(microtasks, u)
    /\ UNCHANGED <<loaded, storageSettings, pluginSettings, promptService, initPc>>
    /\ UNCHANGED <<pipelineVars, decodeVars, urlTestVars, pluginVars, thumbVars,
                   commandVars>>

\* plugin.saveData settles (a failure shows a notice and is swallowed);
\* storageService.updateSettings returns, plugin.updateSettings calls
\* getSettings() and awaits the copy it returns
SaveDataSettled(u) ==
    /\ upd[u].pc = "saving"
    /\ \/ /\ stored' = Loaded("object", TRUE, upd[u].saving)
          /\ UNCHANGED settingsNotices
       \/ /\ settingsNotices' = Append(settingsNotices, NoticeSaveFailed)
          /\ UNCHANGED stored
    /\ upd' = [upd EXCEPT ![u] = [@ EXCEPT !.pc = "queued", !.copy = getSettings]]
    /\ microtasks' = Append(microtasks, u)
    /\ UNCHANGED <<loaded, storageSettings, pluginSettings, promptService, initPc>>
    /\ UNCHANGED <<pipelineVars, decodeVars, urlTestVars, pluginVars, thumbVars,
                   commandVars>>

\* this.settings = <the awaited copy>;
\* this.promptService = new PromptService(this.settings.customPrompt);
SettingsAssigned(u) ==
    /\ microtasks # <<>>
    /\ Head(microtasks) = u
    /\ pluginSettings' = upd[u].copy
    /\ promptService' = pluginSettings'.customPrompt
    /\ upd' = [upd EXCEPT ![u] = [@ EXCEPT !.pc = "done"]]
    /\ microtasks' = Tail(microtasks)
    /\ UNCHANGED <<stored, loaded, storageSettings, initPc, settingsNotices>>
    /\ UNCHANGED <<pipelineVars, decodeVars, urlTestVars, pluginVars, thumbVars,
                   commandVars>>

NextSettings ==
    \/ InitializeServices
    \/ LoadDataSettled
    \/ SettingsLoaded
    \/ \E u \in Updates :
          \/ \E settings \in PartialUpdates : UpdateSettings(u, settings)
          \/ SaveDataSettled(u)
          \/ SettingsAssigned(u)

SpecSettings == InitSettings /\ [][NextSettings]_vars

(***************************************************************************)
(* The editor commands and the URL modal, with the summarizeVideo          *)
(* invocations they start.  registerCommands is src/unnamed/part_001 lines *)
(* 175-226; its two commands have the same callback, so a run does not     *)
(* record which of them it was.  The modal is                              *)
(* src/src/modals/youtube-url.ts.                                          *)
(***************************************************************************)
InitCommand ==
    /\ PipelineIdle
    /\ DecodeIdle
    /\ UrlTestIdle
    /\ ThumbnailIdle
    /\ SettingsIdle
    /\ PluginInit
    /\ CommandIdle

\* run c of a command shows a notice; which notices a run has shown is
\* recorded, not how often
CmdNotice(c, notice) == [cmd[c] EXCEPT !.notices = @ \cup {notice}]

\* editorCallback without the isYouTubeUrl test
EditorCallback_NoUrlTest(c, selection) ==
    LET selectedText == trim(selection)
    IN  /\ cmd[c].pc = "idle"
        /\ \A j \in Commands : j < c => cmd[j].pc # "idle"
        /\ IF selectedText # <<>>
           THEN \E i \in Invocations :
                   /\ summarizeVideo(i, "command")
                   /\ cmd' = [cmd EXCEPT ![c] =
                                 [@ EXCEPT !.pc = "invoked",
                                           !.selectedText = selectedText,
                                           !.url = selectedText, !.invocation = i]]
           ELSE /\ cmd' = [cmd EXCEPT ![c] =
                              [@ EXCEPT !.pc = "modalOpen",
                                        !.selectedText = selectedText]]
                /\ UNCHANGED pluginVars
        /\ UNCHANGED <<pipelineVars, decodeVars, urlTestVars, thumbVars, settingsVars>>

\* editorCallback of either command: the trimmed selection is summarized if
\* it is a YouTube URL, refused with a notice if it is some other text, and
\* the modal is opened if it is empty; runs are numbered in order
EditorCallback(c, selection) ==
    LET selectedText == trim(selection)
    IN  /\ cmd[c].pc = "idle"
        /\ \A j \in Commands : j < c => cmd[j].pc # "idle"
        /\ IF selectedText # <<>> /\ isYouTubeUrl(selectedText)
           THEN \E i \in Invocations :
                   /\ summarizeVideo(i, "command")
                   /\ cmd' = [cmd EXCEPT ![c] =
                                 [@ EXCEPT !.pc = "invoked",
                                           !.selectedText = selectedText,
                                           !.url = selectedText, !.invocation = i]]
           ELSE IF selectedText # <<>>
                THEN /\ cmd' = [cmd EXCEPT ![c] =
                                   [CmdNotice(c, NoticeNotYouTube) EXCEPT
                                        !.pc = "noticed",
                                        !.selectedText = selectedText]]
                     /\ UNCHANGED pluginVars
                ELSE /\ cmd' = [cmd EXCEPT ![c] =
                                   [@ EXCEPT !.pc = "modalOpen",
                                             !.selectedText = selectedText]]
                     /\ UNCHANGED pluginVars
        /\ UNCHANGED <<pipelineVars, decodeVars, urlTestVars, thumbVars, settingsVars>>

\* click on Submit: const url = inputEl.value.trim(); if (url)
\* { this.onSubmit(url); this.close(); } else a notice
ModalSubmit(c, value) ==
    LET u == trim(value)
    IN  /\ cmd[c].pc = "modalOpen"
        /\ IF u # <<>>
           THEN \E i \in Invocations :
                   /\ summarizeVideo(i, "modal")
                   /\ cmd' = [cmd EXCEPT ![c] =
                                 [@ EXCEPT !.pc = "submitted", !.url = u,
                                           !.invocation = i, !.submits = @ + 1]]
           ELSE /\ cmd' = [cmd EXCEPT ![c] = CmdNotice(c, NoticeEnterUrl)]
                /\ UNCHANGED pluginVars
        /\ UNCHANGED <<pipelineVars, decodeVars, urlTestVars, thumbVars, settingsVars>>

\* click on Cancel: this.close()
ModalCancel(c) ==
    /\ cmd[c].pc = "modalOpen"
    /\ cmd' = [cmd EXCEPT ![c] = [@ EXCEPT !.pc = "cancelled"]]
    /\ UNCHANGED pluginVars
    /\ UNCHANGED <<pipelineVars, decodeVars, urlTestVars, thumbVars, settingsVars>>

NextCommand ==
    \/ \E c \in Commands :
          \/ \E selection \in Selections : EditorCallback(c, selection)
          \/ \E value \in ModalInputs : ModalSubmit(c, value)
          \/ ModalCancel(c)
    \/ \E i \in Invocations :
          \/ WaitForAISettled(i)
          \/ AiProvidersSettled(i)
          \/ FetchTranscriptSettled(i)
          \/ ExecuteSettled(i)
          \/ StreamData(i)
          \/ StreamEnd(i)
          \/ StreamError(i)
          \/ SummarizeSettled(i)

SpecCommand == InitCommand /\ [][NextCommand]_vars
(***************************************************************************)
(* Properties.                                                             *)
(***************************************************************************)
PipelineOrder ==
    << "Start", "UrlParsed", "PageFetched", "CredentialExtracted",
       "MetadataFetched", "TrackSelected", "TranscriptFetched", "Done" >>

Terminal == {"Done", "Failed"}

Position(s) == CHOOSE i \in 1..Len(PipelineOrder) : PipelineOrder[i] = s

CaptionRequests == {i \in 1..Len(requests) : requests[i].endpoint = "baseUrl"}

\* C1: every step of fetchTranscript either keeps the pipeline state,
\* advances it to the next state of Start, UrlParsed, PageFetched,
\* CredentialExtracted, MetadataFetched, TrackSelected, TranscriptFetched,
\* Done, or moves it to the failure terminal; no state is skipped, none is
\* revisited, and Done and the failure terminal are never left.
C1_PipelineOrder ==
    [][ \/ pc' = pc
        \/ pc \notin Terminal /\ pc' = "Failed"
        \/ /\ pc \notin Terminal
           /\ pc' = PipelineOrder[Position(pc) + 1] ]_vars

\* C1 witness: a run went through all eight states, with its three requests.
C1_Witness == pc = "Done" /\ Len(requests) = 3

\* C2: once the metadata response says LOGIN_REQUIRED, the only way on is
\* the age-restricted failure; _findCaptionTrack has not been evaluated and
\* no caption document has been requested, whatever the captions field holds.
C2_LoginRequired ==
    innertubeData.status = "LOGIN_REQUIRED" =>
        /\ pc \in {"MetadataFetched", "Failed"}
        /\ pc = "Failed" => error = AgeRestricted
        /\ ~findCalled
        /\ CaptionRequests = {}

\* C2 witness: a LOGIN_REQUIRED response that lists caption tracks has failed.
C2_Witness ==
    /\ innertubeData.status = "LOGIN_REQUIRED"
    /\ innertubeData.captions.hasTracks
    /\ Len(innertubeData.captions.captionTracks) > 0
    /\ pc = "Failed"
    /\ error = AgeRestricted

\* a playable response: status absent or ok
Playable == innertubeData.status \in {"absent", "OK"}

\* the caption container or the captionTracks list is missing, or the list
\* is empty
NoTracksListed ==
    \/ ~innertubeData.captions.renderer
    \/ ~innertubeData.captions.hasTracks
    \/ innertubeData.captions.captionTracks = <<>>

\* C3: a playable metadata response whose caption-track list is empty, or
\* whose captions container or captionTracks list is missing, fails with
\* TranscriptsDisabled and with no other error.
C3_EmptyListIsTranscriptsDisabled ==
    (pc \in Terminal /\ Playable /\ NoTracksListed) =>
        pc = "Failed" /\ error = TranscriptsDisabled

\* C4: the NoMatchingTrack failure never happens, and whenever
\* _findCaptionTrack has been evaluated the track list was not empty.
C4_NoMatchingTrackUnreachable ==
    /\ error # NoMatchingTrack
    /\ findCalled => Len(captionsJson.captionTracks) > 0

\* s has p as a prefix
HasPrefix(s, p) == \E n \in 0..Len(s) : SubSeq(s, 1, n) = p

\* the track the four ordered rules name in a non-empty list ts for the
\* requested language l
PreferredTrack(ts, l) ==
    LET rule1 == {i \in 1..Len(ts) : ts[i].languageCode = l /\ ts[i].kind # "asr"}
        rule2 == {i \in 1..Len(ts) : ts[i].languageCode = l}
        rule3 == {i \in 1..Len(ts) : HasPrefix(ts[i].languageCode, l)}
    IN  IF rule1 # {} THEN ts[Min(rule1)]
        ELSE IF rule2 # {} THEN ts[Min(rule2)]
        ELSE IF rule3 # {} THEN ts[Min(rule3)]
        ELSE ts[1]

\* C5: whenever _findCaptionTrack has been evaluated on a non-empty track
\* list, the selected track is the one the four rules name: the first exact
\* non-asr match, else the first exact match, else the first prefix match,
\* else the first track.
C5_FourRuleSelection ==
    (findCalled /\ Len(captionsJson.captionTracks) > 0) =>
        /\ pc # "Failed" \/ error \in {RequestRejected, DetailsTypeError}
        /\ captionTrack = PreferredTrack(captionsJson.captionTracks, langCode)

\* C5 witness: the auto-generated en track comes first, the manual en track
\* second, en is requested and the manual track is selected.
C5_Witness ==
    /\ pc = "TrackSelected"
    /\ langCode = en
    /\ Len(captionsJson.captionTracks) = 2
    /\ captionsJson.captionTracks[1].languageCode = en
    /\ captionsJson.captionTracks[1].kind = "asr"
    /\ captionsJson.captionTracks[2].languageCode = en
    /\ captionsJson.captionTracks[2].kind = "manual"
    /\ captionTrack = captionsJson.captionTracks[2]

\* C6: for a URL of either recognized shape, whatever parameters stand
\* before or behind the identifier, the extracted videoId is the identifier.
C6_VideoIdIsTheIdentifier ==
    pc # "Start" =>
        /\ \A b \in BeforeParams, i \in VideoIds, a \in AfterParams :
              url = WatchUrl(b, i, a) => videoId = i
        /\ \A i \in VideoIds, a \in ShortAfterParams :
              url = ShortUrl(i, a) => videoId = i

\* nowhere in s does v= or / stand in front of eleven identifier characters
NoIdentifierIn(s) ==
    ~ \E i \in 1..Len(s) :
        /\ \/ s[i] = "/"
           \/ i > 1 /\ s[i - 1] = "v" /\ s[i] = "="
        /\ i + VideoIdLen <= Len(s)
        /\ \A k \in 1..VideoIdLen : s[i + k] \in IdChars

\* C7: a URL in which no identifier can be matched fails with InvalidUrl,
\* with no other error, and no HTTP request has been issued.
C7_InvalidUrl ==
    (NoIdentifierIn(url) /\ pc # "Start") =>
        /\ pc = "Failed"
        /\ error = InvalidUrl
        /\ requests = <<>>
        /\ pending = "none"

\* C7 witness: a watch URL with a five-character v parameter has failed.
C7_Witness ==
    /\ url = <<"h", "t", "t", "p", "s", ":", "/", "/", "w", "w", "w", ".", "y", "o", "u", "t", "u", "b", "e", ".", "c", "o", "m", "/", "w", "a", "t", "c", "h", "?", "v", "=", "s", "h", "o", "r", "t">>
    /\ pc = "Failed"
    /\ error = InvalidUrl

\* C8: a successful result has at least one line.
C8_LinesNonEmpty == pc = "Done" => Len(result.lines) > 0

\* the six recognized entities and the character each stands for
Entities ==
    << <<<<"&", "a", "m", "p", ";">>, <<"&">>>>, <<<<"&", "l", "t", ";">>, <<"<">>>>, <<<<"&", "g", "t", ";">>, <<">">>>>,
       <<<<"&", "q", "u", "o", "t", ";">>, <<"\"">>>>, <<<<"&", "#", "3", "9", ";">>, <<"'">>>>, <<<<"&", "a", "p", "o", "s", ";">>, <<"'">>>> >>

\* each entity of s converted once, left to right, the converted text not
\* being looked at again
RECURSIVE DecodedOnce(_)
DecodedOnce(s) ==
    IF s = <<>> THEN <<>>
    ELSE LET hit == {k \in 1..Len(Entities) : startsWith(s, Entities[k][1])}
         IN  IF hit = {}
             THEN <<Head(s)>> \o DecodedOnce(Tail(s))
             ELSE LET k == CHOOSE k \in hit : TRUE
                  IN  Entities[k][2]
                        \o DecodedOnce(SubSeq(s, Len(Entities[k][1]) + 1, Len(s)))

\* C9: decodeHTML converts every entity of its input exactly once: text
\* that decoding produced is not decoded a second time.
C9_DecodedExactlyOnce == decoded # Null => decoded = DecodedOnce(text)

\* s contains none of the six recognized entities
EntityFree(s) == \A k \in 1..Len(Entities) : ~includes(s, Entities[k][1])

\* C10: decodeHTML returns a text that contains none of the six entities
\* unchanged.
C10_EntityFreeUnchanged == (decoded # Null /\ EntityFree(text)) => decoded = text

\* C10 witness: a text with an ampersand and a semicolon but no entity has
\* been decoded.
C10_Witness ==
    /\ text = <<"&", "a", "m", "p", "l", "t", ";">>
    /\ EntityFree(text)
    /\ decoded = text


\* the invocations between try and finally
InFlightSet == {i \in Invocations : inv[i].pc \in InFlight}

\* a rejected invocation showed the one notice and did nothing else
RejectedDidNothing(i) ==
    /\ inv[i].notices = <<NoticeAlreadyProcessing>>
    /\ ~inv[i].fetched
    /\ ~inv[i].aiCalled
    /\ \A k \in 1..Len(editor) : editor[k] # i

\* C11: at most one summarizeVideo invocation is in flight, isProcessing is
\* true exactly while one is, and an invocation made while isProcessing is
\* true, from a command or from the modal, is rejected with the 'Already
\* processing' notice: it starts no transcript fetch and no AI call, writes
\* nothing to the editor and leaves isProcessing as it is.
C11_OneRunAtATime ==
    /\ [](/\ Cardinality(InFlightSet) <= 1
          /\ isProcessing <=> InFlightSet # {}
          /\ \A i \in Invocations : inv[i].pc = "rejected" => RejectedDidNothing(i))
    /\ [][\A i \in Invocations :
            (isProcessing /\ inv[i].pc = "idle" /\ inv'[i].pc # "idle") =>
                /\ inv'[i].pc = "rejected"
                /\ RejectedDidNothing(i)'
                /\ isProcessing'
                /\ editor' = editor
                /\ \A j \in Invocations \ {i} : inv'[j] = inv[j]]_vars

\* C11 witness: an invocation from the modal has been rejected while the
\* one made before it by a command is awaiting the transcript.
C11_Witness ==
    /\ inv[1].pc = "fetching"
    /\ inv[1].source = "command"
    /\ inv[2].pc = "rejected"
    /\ inv[2].source = "modal"
    /\ isProcessing

\* the method and endpoint of the requests issued so far
RequestKinds == [i \in 1..Len(requests) |-> <<requests[i].method, requests[i].endpoint>>]

\* GET watch page, POST metadata endpoint, GET caption document
RequestOrder ==
    << <<"GET", "WATCH_URL">>, <<"POST", "INNERTUBE_API_URL">>, <<"GET", "baseUrl">> >>

\* the endpoint of the request fetchTranscript is awaiting
PendingEndpoint ==
    CASE pending = "watch"     -> "WATCH_URL"
      [] pending = "player"    -> "INNERTUBE_API_URL"
      [] pending = "timedtext" -> "baseUrl"
      [] OTHER                 -> "none"

\* C12: the requests issued are an initial part of GET watch page, POST
\* metadata endpoint, GET caption document, so each is issued at most once;
\* an awaited request is the last one issued; the one caption document
\* requested is that of the selected track; a request is issued only when
\* none is outstanding, and none is issued after a failure.
C12_OneRequestAtATime ==
    /\ [](/\ Len(requests) <= Len(RequestOrder)
          /\ RequestKinds = SubSeq(RequestOrder, 1, Len(requests))
          /\ pending # "none" =>
                /\ pc \notin Terminal
                /\ Len(requests) > 0
                /\ requests[Len(requests)].endpoint = PendingEndpoint
          /\ \A i \in CaptionRequests : requests[i].url = captionTrack.baseUrl)
    /\ [][/\ requests' # requests =>
                /\ pending = "none"
                /\ pending' # "none"
                /\ Len(requests') = Len(requests) + 1
          /\ pc = "Failed" => requests' = requests]_vars

\* C12 witness: the metadata lists two tracks and the one caption request
\* is outstanding.
C12_Witness ==
    /\ pending = "timedtext"
    /\ Len(captionsJson.captionTracks) = 2
    /\ Len(requests) = 3

\* C13: a response with status ERROR fails with VideoUnavailable, also when
\* its caption container is missing or empty; a response with absent or ok
\* status never fails with AgeRestricted or VideoUnavailable.
C13_StatusBeforeCaptions ==
    /\ innertubeData.status = "ERROR" =>
          /\ pc \in {"MetadataFetched", "Failed"}
          /\ pc = "Failed" => error = VideoUnavailable
    /\ Playable => error \notin {AgeRestricted, VideoUnavailable}

\* C13 witness: an ERROR response without a caption container has failed
\* with VideoUnavailable.
C13_Witness ==
    /\ innertubeData.status = "ERROR"
    /\ ~innertubeData.captions.renderer
    /\ pc = "Failed"
    /\ error = VideoUnavailable

\* C14: when _findCaptionTrack has been evaluated on a non-empty list it
\* has not thrown, the track it returned is an element of that list, and
\* the list is still the one of the metadata response.
C14_SomeTrackOfTheList ==
    (findCalled /\ Len(captionsJson.captionTracks) > 0) =>
        /\ error # NoMatchingTrack
        /\ \E i \in 1..Len(captionsJson.captionTracks) :
              captionTrack = captionsJson.captionTracks[i]
        /\ captionsJson = innertubeData.captions

\* C14 witness: fr is requested, only a de track is listed, and it is
\* selected.
C14_Witness ==
    /\ pc = "TrackSelected"
    /\ langCode = fr
    /\ Len(captionsJson.captionTracks) = 1
    /\ captionsJson.captionTracks[1].languageCode = de
    /\ captionTrack = captionsJson.captionTracks[1]

\* a <= b for JavaScript numbers: false when either is NaN
Leq(a, b) == a # NaN /\ b # NaN /\ a <= b

\* the values are non-decreasing along the sequence
NonDecreasing(ns) == \A i \in 1..(Len(ns) - 1) : Leq(ns[i], ns[i + 1])

Offsets(ls) == [i \in 1..Len(ls) |-> ls[i].offset]

Starts(xml) == [i \in 1..Len(xml) |-> xml[i].start]

\* C16 as claimed: in every transcript produced the offsets are
\* non-decreasing along the sequence.
C16_OffsetsNonDecreasing == pc = "Done" => NonDecreasing(Offsets(result.lines))

\* C16 as amended: when every cue of the caption document has a numeric
\* start attribute and the start attributes are non-decreasing in document
\* order, the offsets of the transcript are numeric and non-decreasing.
C16_OffsetsFollowDocument ==
    (pc = "Done" /\ NonDecreasing(Starts(transcriptXml))
                 /\ \A i \in 1..Len(transcriptXml) : transcriptXml[i].start # NaN) =>
        /\ NonDecreasing(Offsets(result.lines))
        /\ \A i \in 1..Len(result.lines) : result.lines[i].offset # NaN

\* C16 witness: a document of two cues starting at 0 s and at 0.5 s has been
\* parsed.
C16_Witness ==
    /\ pc = "Done"
    /\ Len(transcriptXml) = 2
    /\ transcriptXml[1].start = 0
    /\ transcriptXml[2].start = 5
    /\ Offsets(result.lines) = <<0, 500>>

\* a decimal number of seconds, held in tenths, times 1000
Times1000(tenths) == IF tenths = NaN THEN NaN ELSE 100 * tenths

\* C17: the transcript has one line per cue node, in document order: line
\* i carries the text of cue i with each entity decoded once, the start
\* attribute of cue i times 1000 as offset and its dur attribute times 1000
\* as duration.
C17_OneLinePerCue ==
    pc = "Done" =>
        /\ Len(result.lines) = Len(transcriptXml)
        /\ \A i \in 1..Len(transcriptXml) :
              /\ result.lines[i].text = DecodedOnce(transcriptXml[i].text)
              /\ result.lines[i].offset = Times1000(transcriptXml[i].start)
              /\ result.lines[i].duration = Times1000(transcriptXml[i].dur)

\* C18: a fetched watch page without the InnerTube API key goes no further
\* than the CredentialExtractionFailed failure: the watch-page GET stays the
\* only request, so no POST and no caption GET is issued.
C18_NoKeyNoMetadataRequest ==
    (videoPageBody \in HtmlPages /\ INNERTUBE_API_KEY_REGEX(videoPageBody) = "") =>
        /\ pc \in {"PageFetched", "Failed"}
        /\ pc = "Failed" => error = CredentialExtractionFailed
        /\ RequestKinds = << <<"GET", "WATCH_URL">> >>
        /\ pending = "none"

\* C18 witness: a page without the key has been fetched and the call has
\* failed.
C18_Witness ==
    /\ videoPageBody \in HtmlPages
    /\ INNERTUBE_API_KEY_REGEX(videoPageBody) = ""
    /\ pc = "Failed"
    /\ error = CredentialExtractionFailed

\* the failure kind an error leaving fetchTranscript carries: the service
\* names one only in the errors it throws itself
Kind(e) ==
    CASE e = InvalidUrl                 -> "InvalidUrl"
      [] e = CredentialExtractionFailed -> "CredentialExtractionFailed"
      [] e = AgeRestricted              -> "AgeRestricted"
      [] e = VideoUnavailable           -> "VideoUnavailable"
      [] e = TranscriptsDisabled        -> "TranscriptsDisabled"
      [] e = NoMatchingTrack            -> "NoMatchingTrack"
      [] OTHER                          -> "none"

\* C19: when an HTTP request fails, the failure that reaches the caller has
\* the kind PageFetchFailed if the request was the watch-page GET or the
\* metadata POST, and CaptionFetchFailed if it was the caption-document GET.
C19_FetchFailureKinds ==
    (pc = "Failed" /\ error = RequestRejected) =>
        Kind(error) = IF requests[Len(requests)].endpoint = "baseUrl"
                      THEN "CaptionFetchFailed"
                      ELSE "PageFetchFailed"

\* C20: isYouTubeUrl returns true for a URL whose host is on youtube.com or
\* youtu.be, https://youtube.com/watch?v=<id> included, and false for a URL
\* whose host is on neither.
C20_TrueOnBothDomains ==
    isYouTube # "unset" =>
        \A h \in YouTubeHosts \cup OtherHosts, p \in Paths :
            candidate = HostUrl(h, p) =>
                (isYouTube = "true" <=> h \in YouTubeHosts)


\* C21: in every successful result the videoId is exactly eleven characters,
\* each from [A-Za-z0-9_-], and the url field is the url argument unchanged.
C21_VideoIdElevenUrlSafe ==
    pc = "Done" =>
        /\ Len(result.videoId) = VideoIdLen
        /\ \A k \in 1..Len(result.videoId) : result.videoId[k] \in IdChars
        /\ result.url = url

\* C21 witness: a watch URL with parameters before and behind the identifier
\* has given a result.
C21_Witness ==
    /\ pc = "Done"
    /\ url \in RecognizedUrls
    /\ Len(url) > Len(<<"h", "t", "t", "p", "s", ":", "/", "/", "w", "w", "w", ".", "y", "o", "u", "t", "u", "b", "e", ".", "c", "o", "m", "/", "w", "a", "t", "c", "h", "?", "v", "=">>) + VideoIdLen
    /\ Len(result.videoId) = VideoIdLen
    /\ result.url = url

\* the channel path fetchTranscript builds for a channel identifier
ChannelPath(channelId) == <<"h", "t", "t", "p", "s", ":", "/", "/", "w", "w", "w", ".", "y", "o", "u", "t", "u", "b", "e", ".", "c", "o", "m", "/", "c", "h", "a", "n", "n", "e", "l", "/">> \o channelId

\* C22: in every successful result channelUrl is the channel path of the
\* metadata's channelId when the metadata carries one, and the empty string
\* otherwise.
C22_ChannelUrl ==
    pc = "Done" =>
        result.channelUrl =
            IF innertubeData.videoDetails.channelId = Null
            THEN <<>>
            ELSE ChannelPath(innertubeData.videoDetails.channelId)

\* C22 witness: a result built from metadata without a channelId has the
\* empty channelUrl.
C22_Witness ==
    /\ pc = "Done"
    /\ innertubeData.videoDetails.present
    /\ innertubeData.videoDetails.channelId = Null
    /\ result.channelUrl = <<>>

\* the file name the documentation gives for each quality
ThumbnailSuffix(q) ==
    CASE q = "default"  -> <<"d", "e", "f", "a", "u", "l", "t">>
      [] q = "medium"   -> <<"m", "q", "d", "e", "f", "a", "u", "l", "t">>
      [] q = "high"     -> <<"h", "q", "d", "e", "f", "a", "u", "l", "t">>
      [] q = "standard" -> <<"s", "d", "d", "e", "f", "a", "u", "l", "t">>
      [] q = "maxres"   -> <<"m", "a", "x", "r", "e", "s", "d", "e", "f", "a", "u", "l", "t">>
      [] q = "omitted"  -> <<"m", "a", "x", "r", "e", "s", "d", "e", "f", "a", "u", "l", "t">>

\* C23: getThumbnailUrl returns https://img.youtube.com/vi/<videoId>/<suffix>.jpg
\* with the suffix of the quality, maxresdefault when the quality is
\* omitted; it issues no HTTP request and changes no state.
C23_ThumbnailUrl ==
    /\ thumbnailUrl # Null =>
          thumbnailUrl = <<"h", "t", "t", "p", "s", ":", "/", "/", "i", "m", "g", ".", "y", "o", "u", "t", "u", "b", "e", ".", "c", "o", "m", "/", "v", "i", "/">> \o thumbVideoId \o <<"/">>
                             \o ThumbnailSuffix(quality) \o <<".", "j", "p", "g">>
    /\ requests = <<>>
    /\ pending = "none"
    /\ pc = "Start"
    /\ ~isProcessing
    /\ SettingsIdle

\* C23 witness: the call of the documentation, abc12345678 with high, has
\* returned the hqdefault address.
C23_Witness ==
    /\ thumbVideoId = <<"a", "b", "c", "1", "2", "3", "4", "5", "6", "7", "8">>
    /\ quality = "high"
    /\ thumbnailUrl = <<"h", "t", "t", "p", "s", ":", "/", "/", "i", "m", "g", ".", "y", "o", "u", "t", "u", "b", "e", ".", "c", "o", "m", "/", "v", "i", "/", "a", "b", "c", "1", "2", "3", "4", "5", "6", "7", "8", "/", "h", "q", "d", "e", "f", "a", "u", "l", "t", ".", "j", "p", "g">>

\* the stored settings loadData found, if it found any
FoundSettings ==
    IF loaded.state = "object" /\ loaded.hasSettings
    THEN loaded.settings
    ELSE EmptyObject

\* the value of key k once loadData has run: the stored one, else the default
AfterLoad(k) ==
    IF k \in DOMAIN FoundSettings THEN FoundSettings[k] ELSE DEFAULT_SETTINGS[k]

\* C24: after loadData the settings hold every key of DEFAULT_SETTINGS, with
\* the stored value for a stored key and the default value otherwise; when
\* nothing is stored or loading throws they equal DEFAULT_SETTINGS.
C24_DefaultsMergedOnLoad ==
    (initPc \in {"loaded", "ready"} /\ \A u \in Updates : upd[u].pc = "idle") =>
        /\ DOMAIN DEFAULT_SETTINGS \subseteq DOMAIN storageSettings
        /\ \A k \in DOMAIN DEFAULT_SETTINGS : storageSettings[k] = AfterLoad(k)
        /\ \A k \in DOMAIN FoundSettings : storageSettings[k] = FoundSettings[k]
        /\ ~(loaded.state = "object" /\ loaded.hasSettings) =>
               storageSettings = DEFAULT_SETTINGS

\* C24 witness: stored settings that override two keys have been loaded; the
\* other three keys have their defaults.
C24_Witness ==
    /\ initPc = "loaded"
    /\ loaded.state = "object"
    /\ loaded.hasSettings
    /\ DOMAIN loaded.settings = {"geminiApiKey", "maxTokens"}
    /\ storageSettings.geminiApiKey = "key"
    /\ storageSettings.maxTokens = 100
    /\ storageSettings.customPrompt = DEFAULT_PROMPT

\* the updateSettings calls made so far
Invoked == {u \in Updates : upd[u].pc # "idle"}

\* the calls whose partial settings name key k
Naming(k) == {u \in Invoked : k \in DOMAIN upd[u].settings}

\* every key named by the stored settings, the defaults or a call
SettingsKeys ==
    DOMAIN DEFAULT_SETTINGS \cup DOMAIN FoundSettings
        \cup UNION {DOMAIN upd[u].settings : u \in Invoked}

\* C27: once every updateSettings call made has completed, plugin.settings
\* equals the StorageService settings; each key has the value of the last
\* call naming it, or its value before the calls when no call names it; and
\* the PromptService was built from that customPrompt.
C27_UpdatesInInvocationOrder ==
    (initPc = "ready" /\ \A u \in Invoked : upd[u].pc = "done") =>
        /\ pluginSettings = storageSettings
        /\ DOMAIN storageSettings = SettingsKeys
        /\ \A k \in SettingsKeys :
              storageSettings[k] =
                  IF Naming(k) = {}
                  THEN AfterLoad(k)
                  ELSE upd[Max(Naming(k))].settings[k]
        /\ promptService = storageSettings.customPrompt

\* C27 witness: two calls that both set customPrompt have completed, the
\* save of the second having settled before the save of the first.
C27_Witness ==
    /\ MaxUpdates >= 2
    /\ upd[1].pc = "done"
    /\ upd[2].pc = "done"
    /\ \A u \in Updates : upd[u].pc \in {"idle", "done"}
    /\ upd[1].settings = [customPrompt |-> "P1"]
    /\ upd[2].settings = [customPrompt |-> "P2"]
    /\ stored.settings.customPrompt = "P1"
    /\ promptService = "P2"

\* how often invocation i wrote to the editor
Writes(i) == Cardinality({k \in 1..Len(editor) : editor[k] = i})

\* the positions at which an invocation has ended without a summary
EndedWithout == {"failed", "rejected", "returned"}

\* C25: an invocation writes to the editor at most once, and only when its
\* transcript fetch has succeeded and its AI call has then completed with
\* the full summary; an invocation that fails, returns early or is rejected
\* leaves the editor as it is and shows a notice.
C25_EditorWrittenOnSuccessOnly ==
    /\ [](\A i \in Invocations :
            /\ Writes(i) <= 1
            /\ Writes(i) = 1 <=> inv[i].pc = "done"
            /\ Writes(i) = 1 =>
                  /\ inv[i].fetched
                  /\ inv[i].aiCalled
                  /\ inv[i].summaryText = "full"
            /\ inv[i].pc \in EndedWithout => inv[i].notices # <<>>)
    /\ [][\A i \in Invocations :
            /\ (inv[i].pc \notin EndedWithout /\ inv'[i].pc \in EndedWithout) =>
                  /\ editor' = editor
                  /\ Len(inv'[i].notices) > Len(inv[i].notices)
            /\ Writes(i)' # Writes(i) =>
                  /\ editor' = Append(editor, i)
                  /\ inv[i].aiCalled
                  /\ inv[i].pc \in {"streaming", "summarizing"}]_vars

\* C25 witness: one invocation has written its summary, and a later one has
\* failed and left the editor with that one write.
C25_Witness ==
    /\ inv[1].pc = "done"
    /\ inv[2].pc = "failed"
    /\ inv[2].fetched
    /\ editor = <<1>>

\* C26: when every awaited call settles and the stream ends or fails, an
\* invocation that is between try and finally eventually leaves, with
\* isProcessing false at that moment; so isProcessing never stays true.
C26_ProcessingEventuallyFalse ==
    /\ \A i \in Invocations :
          (inv[i].pc \in InFlight) ~> (inv[i].pc \notin InFlight /\ ~isProcessing)
    /\ isProcessing ~> ~isProcessing

\* C26 witness: an invocation whose stream fired onError has ended and
\* isProcessing is false again.
C26_Witness ==
    /\ inv[1].pc = "failed"
    /\ inv[1].aiCalled
    /\ inv[1].notices[Len(inv[1].notices) - 1] = NoticeStreamError
    /\ ~isProcessing

\* C28: an invocation that returned because no provider is configured, or
\* because the Gemini key is empty, has shown the notice of that case and
\* nothing else, has called neither fetchTranscript nor the AI and has not
\* written to the editor; isProcessing is false when it returns.
C28_NoProviderReturns ==
    /\ [](\A i \in Invocations :
            inv[i].pc = "returned" =>
                /\ ~inv[i].fetched
                /\ ~inv[i].aiCalled
                /\ Writes(i) = 0
                /\ requests = <<>>
                /\ inv[i].notices \in
                       IF version = "providers"
                       THEN {<<NoticeNoProviders>>, <<NoticeNoProvider>>}
                       ELSE {<<NoticeNoApiKey>>})
    /\ [][\A i \in Invocations :
            (inv[i].pc # "returned" /\ inv'[i].pc = "returned") =>
                /\ ~isProcessing'
                /\ editor' = editor]_vars

\* C28 witness: with the AI providers version an invocation returned with
\* the no-provider notice, and in a later one the transcript is being
\* fetched.
C28_Witness ==
    /\ version = "providers"
    /\ inv[1].pc = "returned"
    /\ inv[1].notices = <<NoticeNoProviders>>
    /\ inv[2].pc = "fetching"

\* the command runs that started invocation i
StartedBy(i) == {c \in Commands : cmd[c].invocation = i}

\* C29: a run with a non-empty trimmed selection invokes summarizeVideo
\* only if isYouTubeUrl holds of it, and otherwise shows a notice and starts
\* nothing; a run with an empty selection opens the modal, which calls
\* summarizeVideo at most once, with the non-empty trimmed text submitted,
\* whatever that text is; nothing else invokes summarizeVideo.
C29_CommandDispatch ==
    /\ [](/\ \A c \in Commands :
               /\ cmd[c].pc = "invoked" =>
                     /\ cmd[c].selectedText # <<>>
                     /\ isYouTubeUrl(cmd[c].selectedText)
                     /\ cmd[c].url = cmd[c].selectedText
                     /\ cmd[c].invocation \in Invocations
                     /\ inv[cmd[c].invocation].source = "command"
               /\ cmd[c].pc = "noticed" =>
                     /\ cmd[c].selectedText # <<>>
                     /\ ~isYouTubeUrl(cmd[c].selectedText)
                     /\ cmd[c].notices = {NoticeNotYouTube}
                     /\ cmd[c].invocation = 0
               /\ cmd[c].pc \in {"modalOpen", "cancelled", "submitted"} =>
                     cmd[c].selectedText = <<>>
               /\ cmd[c].pc \in {"modalOpen", "cancelled"} =>
                     /\ cmd[c].invocation = 0
                     /\ cmd[c].submits = 0
               /\ cmd[c].pc = "submitted" =>
                     /\ cmd[c].submits = 1
                     /\ cmd[c].url # <<>>
                     /\ cmd[c].url = trim(cmd[c].url)
                     /\ cmd[c].invocation \in Invocations
                     /\ inv[cmd[c].invocation].source = "modal"
               /\ cmd[c].submits <= 1
          /\ \A i \in Invocations :
               inv[i].pc # "idle" => Cardinality(StartedBy(i)) = 1)
    /\ [][\A i \in Invocations :
            (inv[i].pc = "idle" /\ inv'[i].pc # "idle") =>
                \E c \in Commands :
                    /\ cmd[c].invocation = 0
                    /\ cmd'[c].invocation = i
                    /\ \/ cmd[c].pc = "idle" /\ cmd'[c].pc = "invoked"
                       \/ cmd[c].pc = "modalOpen" /\ cmd'[c].pc = "submitted"]_vars

\* C29 witness: a modal in which Submit was first clicked with nothing
\* typed has then passed a text that is no YouTube URL to summarizeVideo,
\* whose transcript fetch is under way; a later run with some other text
\* selected got the notice.
C29_Witness ==
    /\ cmd[1].pc = "submitted"
    /\ cmd[1].url = <<"n", "o", "t", " ", "a", " ", "u", "r", "l">>
    /\ ~isYouTubeUrl(cmd[1].url)
    /\ cmd[1].notices = {NoticeEnterUrl}
    /\ inv[cmd[1].invocation].pc = "fetching"
    /\ cmd[2].pc = "noticed"
    /\ cmd[2].selectedText = <<"s", "o", "m", "e", " ", "t", "e", "x", "t">>

\* a title or author that is absent or the empty string
Missing(x) == x = Null \/ x = <<>>

\* C30: videoDetails is read last.  Metadata without videoDetails never
\* gives a result; the failure it causes carries none of the named kinds and
\* comes after the three requests, the caption-document GET being the last,
\* and every run that got the caption document without videoDetails fails
\* so; with videoDetails, a missing title or author is 'Unknown' in the
\* result.
C30_DetailsReadLast ==
    /\ (innertubeData # NoData /\ ~innertubeData.videoDetails.present) => pc # "Done"
    /\ error = DetailsTypeError =>
          /\ pc = "Failed"
          /\ result = NoResult
          /\ Kind(error) = "none"
          /\ ~innertubeData.videoDetails.present
          /\ innertubeData.status \in {"absent", "OK"}
          /\ captionTrack # NoTrack
          /\ RequestKinds = RequestOrder
          /\ requests[3].url = captionTrack.baseUrl
          /\ pending = "none"
    /\ (pc = "Failed" /\ Len(requests) = 3 /\ error # RequestRejected) =>
          error = DetailsTypeError
    /\ pc = "Done" =>
          /\ Missing(innertubeData.videoDetails.title) => result.title = <<"U", "n", "k", "n", "o", "w", "n">>
          /\ Missing(innertubeData.videoDetails.author) => result.author = <<"U", "n", "k", "n", "o", "w", "n">>

\* C30 witness: a playable response with a caption track and no
\* videoDetails has failed after the caption document was requested.
C30_Witness ==
    /\ pc = "Failed"
    /\ error = DetailsTypeError
    /\ innertubeData.status = "OK"
    /\ Len(requests) = 3
    /\ requests[3].endpoint = "baseUrl"
=============================================================================
